---- MODULE Spec2Model ----
(***************************************************************************)
(* Model of slyd's MySQL-backed git storage (slyd/gitstorage/repo.py):     *)
(*   - MysqlObjectStore  : the objs table, keyed by (oid, repo)            *)
(*   - MysqlRefsContainer: the refs table, keyed by (ref, repo)            *)
(*   - ReconnectionPool._runWithConnection: the retrying unit of work      *)
(* Four specifications share the variables:                                *)
(*   Spec       : object store operations issued one after another on one  *)
(*                connection                                               *)
(*   SpecRefs   : ref operations issued one after another on one connection*)
(*   SpecRunner : one top-level call of _runWithConnection                 *)
(*   SpecCAS    : two transactions running set_if_equals concurrently      *)
(***************************************************************************)
EXTENDS Integers, Sequences, FiniteSets, Bags, TLC

VARIABLES
    objs,          \* the objs table: a bag of rows [oid, type, size, data, repo]
    refs,          \* the refs table: refs[repo][ref] is the value column, RefNone when no row
    lastOp,        \* the last store operation: its arguments and what it returned
    rpc,           \* _runWithConnection: where the call is
    retries,       \* _runWithConnection: the _retries keyword of the current level
    conn,          \* _runWithConnection: the connection object of the current level
    factoryCalls,  \* number of connectionFactory calls made so far
    managerConn,   \* the connection attribute injected into the manager argument
    curErr,        \* the exception caught at the current level
    funcResult,    \* what func returned at the current level
    outcome,       \* how the top-level call ended
    log,           \* the calls made on connections, in order
    tpc,           \* SpecCAS: position of each transaction
    tnew,          \* SpecCAS: new_ref argument of each transaction
    tcur,          \* SpecCAS: current_ref read by each transaction
    treal,         \* SpecCAS: realname computed by each transaction
    tres,          \* SpecCAS: value returned by set_if_equals in each transaction
    twrite,        \* SpecCAS: uncommitted REPLACE of each transaction
    lockHolder,    \* SpecCAS: the transaction holding the row lock of each ref
    aborts,        \* SpecCAS: number of attempts of each transaction that were rolled back
    data,          \* Model.shared_data_store[storage]: the snapshot store of every data_key
    loaded,        \* Model.loaded[storage]: the paths whose load was started
    files,         \* the documents the Storage collaborator holds, by path
    calls,         \* the Storage calls of the last model operation, in order
    opens,         \* number of Storage.open calls per path so far
    instances,     \* SpecData: the Python instances made so far, by name
    ormOp          \* the last model operation: its arguments and what it returned

storeVars  == <<objs, refs, lastOp>>
runnerVars == <<rpc, retries, conn, factoryCalls, managerConn, curErr, funcResult, outcome, log>>
casVars    == <<tpc, tnew, tcur, treal, tres, twrite, lockHolder, aborts>>
ormVars    == <<data, loaded, files, calls, opens, instances, ormOp>>
vars       == <<objs, refs, lastOp, rpc, retries, conn, factoryCalls, managerConn, curErr,
                funcResult, outcome, log, tpc, tnew, tcur, treal, tres, twrite, lockHolder,
                aborts, data, loaded, files, calls, opens, instances, ormOp>>

(***************************************************************************)
(* Domains                                                                 *)
(***************************************************************************)
\* namespaces (the repo column)
Repos == {"A", "B"}
\* ref names; HEAD is the only name that is ever made symbolic
BranchNames == {"refs/heads/master"}
RefNames == {"HEAD"} \cup BranchNames
\* 40-character hex shas used as ref values
Hashes == {"h1", "h2"}
\* longest sequence handed to add_objects / delete_objects, and longest pack
MaxBatch == 2
\* largest number of rolled-back attempts per transaction in SpecCAS
MaxAborts == 1

\* a ref value: a sha, or SYMREF + other
Sha(h) == [sym |-> FALSE, v |-> h]
\* SYMREF + other (repo.py line 357)
SymVal(other) == [sym |-> TRUE, v |-> other]
\* Python None for a ref value / absent row
RefNone == [sym |-> FALSE, v |-> "None"]
ShaVals == {Sha(h) : h \in Hashes}
SymVals == {SymVal(n) : n \in BranchNames}

\* git objects: (type number, raw data); 3 is a blob, 2 a tree
Objects == {[type |-> 3, data |-> <<1>>], [type |-> 3, data |-> <<1, 2>>]}
\* an undecodable pack entry
Corrupt == [type |-> 0, data |-> <<>>]
\* obj.id: the sha of the content, one name per content
Oid(o) ==
    CASE o = [type |-> 3, data |-> <<1>>] -> "oid1"
      [] o = [type |-> 3, data |-> <<1, 2>>] -> "oid2"
      [] OTHER -> "oid0"
Oids == {Oid(o) : o \in Objects}
\* an oid that no object of the model has
AbsentOid == "oid9"

\* sequences over S of length 0..n
SeqUpTo(S, n) == UNION {[1..k -> S] : k \in 0..n}

(***************************************************************************)
(* MysqlObjectStore                                                        *)
(***************************************************************************)
\* the row _add_object / add_objects hands to ADD: (oid, type, len(data), data, repo)
Row(o, repo) ==
    [oid |-> Oid(o), type |-> o.type, size |-> Len(o.data), data |-> o.data, repo |-> repo]

\* rows of the table with primary key (oid, repo)
RowsAt(tbl, oid, repo) == {r \in BagToSet(tbl) : r.oid = oid /\ r.repo = repo}

\* number of rows stored under (oid, repo)
CountAt(tbl, oid, repo) ==
    LET S == RowsAt(tbl, oid, repo)
    IN  IF S = {} THEN 0 ELSE CopiesIn(CHOOSE r \in S : TRUE, tbl)

\* statement HAS: SELECT EXISTS(SELECT 1 FROM objs WHERE oid=%s AND repo=%s)
HAS(tbl, oid, repo) == IF RowsAt(tbl, oid, repo) # {} THEN 1 ELSE 0

\* statement ALL: SELECT oid FROM objs WHERE repo=%s
ALL(tbl, repo) == {r.oid : r \in {x \in BagToSet(tbl) : x.repo = repo}}

\* Python None as the result of fetchone() on an empty result
PyNone == [isNone |-> TRUE, type |-> 0, data |-> <<>>]

\* statement GET followed by fetchone(): the (type, data) columns of the row, or None
GET(tbl, oid, repo) ==
    LET S == RowsAt(tbl, oid, repo)
    IN  IF S = {} THEN PyNone
        ELSE LET r == CHOOSE x \in S : TRUE
             IN  [isNone |-> FALSE, type |-> r.type, data |-> r.data]

\* a plain INSERT: a duplicate primary key is an error
ADD_NoIgnore(tbl, row) ==
    IF RowsAt(tbl, row.oid, row.repo) # {}
    THEN [err |-> "IntegrityError", tbl |-> tbl]
    ELSE [err |-> "ok", tbl |-> tbl (+) SetToBag({row})]

\* statement ADD: INSERT IGNORE INTO objs; a row whose primary key exists is skipped
ADD(tbl, row) ==
    IF RowsAt(tbl, row.oid, row.repo) # {}
    THEN [err |-> "ok", tbl |-> tbl]
    ELSE [err |-> "ok", tbl |-> tbl (+) SetToBag({row})]

\* a DELETE that names the oid only
DEL_AnyRepo(tbl, oid, repo) ==
    LET keep == {r \in BagToSet(tbl) : r.oid # oid}
    IN  [r \in keep |-> tbl[r]]

\* statement DEL: DELETE FROM objs WHERE oid=%s AND repo=%s
DEL(tbl, oid, repo) ==
    LET keep == {r \in BagToSet(tbl) : ~(r.oid = oid /\ r.repo = repo)}
    IN  [r \in keep |-> tbl[r]]

\* _to_hexsha: a 40-character sha is returned as is, a 20-byte one through sha_to_hex
_to_hexsha(sha) ==
    IF sha.len = 40 THEN [err |-> "ok", hex |-> sha.id]
    ELSE IF sha.len = 20 THEN [err |-> "ok", hex |-> sha.id]
    ELSE [err |-> "ValueError", hex |-> sha.id]

\* the shas callers pass: hex (40), binary (20) or malformed
ShaArgs == {[len |-> l, id |-> i] : l \in {40, 20, 7}, i \in Oids \cup {AbsentOid}}

\* contains_loose
contains_loose(tbl, sha, repo) ==
    LET h == _to_hexsha(sha)
    IN  IF h.err # "ok" THEN [err |-> h.err, ret |-> FALSE]
        ELSE [err |-> "ok", ret |-> HAS(tbl, h.hex, repo) = 1]

\* get_raw: returns the fetched row, which is None when no row matches
get_raw(tbl, name, repo) ==
    LET h == _to_hexsha(name)
    IN  IF h.err # "ok" THEN [err |-> h.err, ret |-> PyNone]
        ELSE [err |-> "ok", ret |-> GET(tbl, h.hex, repo)]

\* an _add_object that takes the extra cursor argument its caller in add_pack passes
_add_object_AnyArgs(tbl, obj, repo, nargs) ==
    ADD(tbl, Row(obj, repo))

\* _add_object(self, obj): nargs is the number of arguments passed after self
_add_object(tbl, obj, repo, nargs) ==
    IF nargs # 1 THEN [err |-> "TypeError", tbl |-> tbl]
    ELSE ADD(tbl, Row(obj, repo))

\* add_object
add_object(tbl, obj, repo) == _add_object(tbl, obj, repo, 1)

\* add_objects: one ADD per (object, path) pair, in order
RECURSIVE add_objects(_, _, _)
add_objects(tbl, objects, repo) ==
    IF objects = <<>> THEN [err |-> "ok", tbl |-> tbl]
    ELSE LET r == ADD(tbl, Row(Head(objects), repo))
         IN  IF r.err # "ok" THEN r ELSE add_objects(r.tbl, Tail(objects), repo)

\* delete_objects: one DEL per oid, in order
RECURSIVE delete_objects(_, _, _)
delete_objects(tbl, object_ids, repo) ==
    IF object_ids = <<>> THEN tbl
    ELSE delete_objects(DEL(tbl, Head(object_ids), repo), Tail(object_ids), repo)

\* add_pack(self, cursor): nargs is the number of arguments passed after self
add_pack(nargs) == IF nargs = 1 THEN "ok" ELSE "TypeError"

\* the commit closure of add_pack: the entries are inflated one at a time and each
\* object is handed to self._add_object(obj, cursor)
RECURSIVE commit(_, _, _)
commit(tbl, entries, repo) ==
    IF entries = <<>> THEN [err |-> "ok", tbl |-> tbl]
    ELSE IF Head(entries) = Corrupt THEN [err |-> "PackError", tbl |-> tbl]
    ELSE LET r == _add_object(tbl, Head(entries), repo, 2)
         IN  IF r.err # "ok" THEN r ELSE commit(r.tbl, Tail(entries), repo)

\* a header that is left with the entry count of the thin stream
write_pack_header_NoExt(entries, ext_refs) == Len(entries)

\* write_pack_header(f, len(entries) + len(indexer.ext_refs())): the object count that
\* is written over the header of the buffer
write_pack_header(entries, ext_refs) == Len(entries) + Len(ext_refs)

\* the loop of _complete_thin_pack: every external reference is fetched with get_raw,
\* whose result is unpacked into (type_num, data), and written as a full entry at the
\* end of the buffer
RECURSIVE write_ext_refs(_, _, _, _)
write_ext_refs(tbl, entries, ext_refs, repo) ==
    IF ext_refs = <<>> THEN [err |-> "ok", entries |-> entries]
    ELSE LET g == get_raw(tbl, [len |-> 20, id |-> Head(ext_refs)], repo)
         IN  IF g.err # "ok" THEN [err |-> g.err, entries |-> entries]
             ELSE IF g.ret.isNone THEN [err |-> "TypeError", entries |-> entries]
             ELSE write_ext_refs(tbl,
                                 Append(entries, [type |-> g.ret.type, data |-> g.ret.data]),
                                 Tail(ext_refs), repo)

\* _complete_thin_pack: the header count becomes entries + external references, then
\* the external references are appended; count is the header of the buffer, entries
\* the entries the buffer holds
_complete_thin_pack(tbl, entries, ext_refs, repo) ==
    LET w == write_ext_refs(tbl, entries, ext_refs, repo)
    IN  [err |-> w.err, entries |-> w.entries,
         count |-> write_pack_header(entries, ext_refs)]

\* PackData.from_file on a buffer: the header count must be the number of entries that
\* follow, else the trailing checksum is not where the reader looks for it
PackData(count, entries) ==
    IF count = Len(entries) THEN [err |-> "ok", objects |-> entries]
    ELSE [err |-> "PackError", objects |-> <<>>]

\* copier.verify(): the copied stream must inflate and match its checksum
verify(entries) == \A i \in 1..Len(entries) : entries[i] # Corrupt

\* add_thin_pack: self.add_pack() is called without the cursor; then verify,
\* _complete_thin_pack and commit
add_thin_pack(tbl, stream, repo) ==
    IF add_pack(0) # "ok" THEN [err |-> add_pack(0), tbl |-> tbl]
    ELSE IF ~verify(stream.entries) THEN [err |-> "ChecksumMismatch", tbl |-> tbl]
    ELSE LET c == _complete_thin_pack(tbl, stream.entries, stream.ext, repo)
         IN  IF c.err # "ok" THEN [err |-> c.err, tbl |-> tbl]
             ELSE commit(tbl, c.entries, repo)

\* pack streams: entries in the stream and the oids of the external references
PackEntries == Objects \cup {Corrupt}
Streams == [entries : SeqUpTo(PackEntries, MaxBatch), ext : SeqUpTo(Oids, 1)]
\* indexer.ext_refs(): the shas of the external bases, each listed once
ExtRefs ==
    {s \in SeqUpTo(Oids, Cardinality(Oids)) :
        \A i, j \in 1..Len(s) : i # j => s[i] # s[j]}

(***************************************************************************)
(* MysqlRefsContainer                                                      *)
(***************************************************************************)
\* read_loose_ref: statement GET (SELECT value ... FOR UPDATE); row[0] or None
read_loose_ref(rs, name) == rs[name]

\* _update_ref: statement ADD (REPLACE INTO refs VALUES(name, value, repo))
_update_ref(rs, name, value) == [rs EXCEPT ![name] = value]

\* _remove_ref: statement DEL
_remove_ref(rs, name) == [rs EXCEPT ![name] = RefNone]

\* allkeys: statement ALL
allkeys(rs) == {n \in RefNames : rs[n] # RefNone}

\* RefsContainer._follow as set_if_equals uses it: the last name of the symbolic
\* chain starting at name; a chain longer than 5 is a KeyError
RECURSIVE _follow(_, _, _)
_follow(rs, refname, depth) ==
    LET contents == read_loose_ref(rs, refname)
    IN  IF contents = RefNone THEN [err |-> "ok", realname |-> refname]
        ELSE IF depth + 1 > 5 THEN [err |-> "KeyError", realname |-> refname]
        ELSE IF contents.sym THEN _follow(rs, contents.v, depth + 1)
        ELSE [err |-> "ok", realname |-> refname]

\* _check_refname: HEAD or a name under refs/
_check_refname(name) == name = "HEAD" \/ name \in BranchNames

\* a set_if_equals that skips the comparison with the stored value
set_if_equals_NoCompare(rs, name, old_ref, new_ref) ==
    LET f == _follow(rs, name, 0)
    IN  [err |-> "ok", ret |-> TRUE, cur |-> read_loose_ref(rs, name),
         realname |-> f.realname, rs |-> _update_ref(rs, f.realname, new_ref)]

\* a set_if_equals that compares old_ref with the value the symbolic chain leads to
set_if_equals_Resolved(rs, name, old_ref, new_ref) ==
    LET f == _follow(rs, name, 0)
        current_ref == read_loose_ref(rs, f.realname)
    IN  IF old_ref # RefNone /\ old_ref # current_ref
        THEN [err |-> "ok", ret |-> FALSE, cur |-> current_ref, realname |-> name, rs |-> rs]
        ELSE [err |-> "ok", ret |-> TRUE, cur |-> current_ref, realname |-> f.realname,
              rs |-> _update_ref(rs, f.realname, new_ref)]

\* set_if_equals
set_if_equals(rs, name, old_ref, new_ref) ==
    LET current_ref == read_loose_ref(rs, name)
        f == _follow(rs, name, 0)
    IN  IF old_ref # RefNone /\ old_ref # current_ref
        THEN [err |-> "ok", ret |-> FALSE, cur |-> current_ref, realname |-> name, rs |-> rs]
        ELSE IF f.err # "ok"
        THEN [err |-> f.err, ret |-> FALSE, cur |-> current_ref, realname |-> name, rs |-> rs]
        ELSE IF ~_check_refname(f.realname)
        THEN [err |-> "RefFormatError", ret |-> FALSE, cur |-> current_ref,
              realname |-> f.realname, rs |-> rs]
        ELSE [err |-> "ok", ret |-> TRUE, cur |-> current_ref, realname |-> f.realname,
              rs |-> _update_ref(rs, f.realname, new_ref)]

\* set_symbolic_ref
set_symbolic_ref(rs, name, other) == _update_ref(rs, name, SymVal(other))

\* an add_if_new that writes without looking at the stored value
add_if_new_Always(rs, name, ref) ==
    [ret |-> TRUE, rs |-> _update_ref(rs, name, ref)]

\* add_if_new
add_if_new(rs, name, ref) ==
    IF read_loose_ref(rs, name) # RefNone
    THEN [ret |-> FALSE, rs |-> rs]
    ELSE [ret |-> TRUE, rs |-> _update_ref(rs, name, ref)]

\* a remove_if_equals that deletes without comparing
remove_if_equals_NoCompare(rs, name, old_ref) ==
    [ret |-> TRUE, rs |-> _remove_ref(rs, name)]

\* remove_if_equals
remove_if_equals(rs, name, old_ref) ==
    LET current_ref == read_loose_ref(rs, name)
    IN  IF old_ref # RefNone /\ current_ref # old_ref
        THEN [ret |-> FALSE, rs |-> rs]
        ELSE [ret |-> TRUE, rs |-> _remove_ref(rs, name)]

(***************************************************************************)
(* MysqlRepo                                                               *)
(***************************************************************************)
\* delete_repo: DELETE FROM objs WHERE repo=%s, then DELETE FROM refs WHERE repo=%s
delete_repo(tbl, rf, name) ==
    LET keep == {r \in BagToSet(tbl) : r.repo # name}
    IN  [tbl |-> [r \in keep |-> tbl[r]],
         refs |-> [rf EXCEPT ![name] = [n \in RefNames |-> RefNone]]]

(***************************************************************************)
(* Store operations, one connection (specifications Spec and SpecRefs)     *)
(***************************************************************************)
NoOp ==
    [op |-> "none", repo |-> "A", name |-> "", old |-> RefNone, new |-> RefNone,
     cur |-> RefNone, realname |-> "", ret |-> FALSE, err |-> "ok",
     oids |-> {}, row |-> PyNone, entries |-> <<>>, ext |-> <<>>, buf |-> <<>>,
     count |-> 0, repos |-> {}]

Op(op, repo) == [NoOp EXCEPT !.op = op, !.repo = repo]

\* the oids of a sequence of objects
OidsOf(objects) == {Oid(objects[i]) : i \in 1..Len(objects)}

AddObject ==
    \E repo \in Repos, o \in Objects :
        LET r == add_object(objs, o, repo)
        IN  /\ objs' = r.tbl
            /\ lastOp' = [Op("add_object", repo) EXCEPT !.err = r.err, !.oids = {Oid(o)}]
            /\ UNCHANGED <<refs, runnerVars, casVars, ormVars>>

AddObjects ==
    \E repo \in Repos, objects \in SeqUpTo(Objects, MaxBatch) :
        LET r == add_objects(objs, objects, repo)
        IN  /\ objs' = r.tbl
            /\ lastOp' = [Op("add_objects", repo) EXCEPT !.err = r.err,
                                                         !.oids = OidsOf(objects),
                                                         !.entries = objects]
            /\ UNCHANGED <<refs, runnerVars, casVars, ormVars>>

DeleteObjects ==
    \E repo \in Repos, ids \in SeqUpTo(Oids, MaxBatch) :
        /\ objs' = delete_objects(objs, ids, repo)
        /\ lastOp' = [Op("delete_objects", repo) EXCEPT
                         !.oids = {ids[i] : i \in 1..Len(ids)}]
        /\ UNCHANGED <<refs, runnerVars, casVars, ormVars>>

GetRaw ==
    \E repo \in Repos, sha \in ShaArgs :
        LET r == get_raw(objs, sha, repo)
        IN  /\ lastOp' = [Op("get_raw", repo) EXCEPT !.err = r.err, !.row = r.ret,
                                                     !.name = sha.id, !.oids = {sha.id}]
            /\ UNCHANGED <<objs, refs, runnerVars, casVars, ormVars>>

ContainsLoose ==
    \E repo \in Repos, sha \in ShaArgs :
        LET r == contains_loose(objs, sha, repo)
        IN  /\ lastOp' = [Op("contains_loose", repo) EXCEPT !.err = r.err, !.ret = r.ret,
                                                           !.name = sha.id]
            /\ UNCHANGED <<objs, refs, runnerVars, casVars, ormVars>>

\* f, commit, abort = add_pack(cursor); the caller writes the pack to f and calls commit()
AddPackCommit ==
    \E repo \in Repos, entries \in SeqUpTo(PackEntries, MaxBatch) :
        LET r == IF add_pack(1) = "ok" THEN commit(objs, entries, repo)
                 ELSE [err |-> add_pack(1), tbl |-> objs]
        IN  /\ objs' = r.tbl
            /\ lastOp' = [Op("add_pack_commit", repo) EXCEPT !.err = r.err,
                                                             !.entries = entries]
            /\ UNCHANGED <<refs, runnerVars, casVars, ormVars>>

AddThinPack ==
    \E repo \in Repos, stream \in Streams :
        LET r == add_thin_pack(objs, stream, repo)
        IN  /\ objs' = r.tbl
            /\ lastOp' = [Op("add_thin_pack", repo) EXCEPT !.err = r.err,
                                                           !.entries = stream.entries,
                                                           !.oids = {stream.ext[i] : i \in 1..Len(stream.ext)}]
            /\ UNCHANGED <<refs, runnerVars, casVars, ormVars>>

\* _complete_thin_pack applied to the buffer of a verified thin stream and the external
\* references its indexer resolved
CompleteThinPack ==
    \E repo \in Repos, entries \in SeqUpTo(Objects, MaxBatch), ext \in ExtRefs :
        LET c == _complete_thin_pack(objs, entries, ext, repo)
        IN  /\ lastOp' = [Op("_complete_thin_pack", repo) EXCEPT
                             !.err = c.err, !.entries = entries, !.ext = ext,
                             !.buf = c.entries, !.count = c.count]
            /\ UNCHANGED <<objs, refs, runnerVars, casVars, ormVars>>

SetIfEquals ==
    \E repo \in Repos, name \in RefNames, old \in {RefNone} \cup ShaVals \cup SymVals,
       new \in ShaVals :
        LET r == set_if_equals(refs[repo], name, old, new)
        IN  /\ refs' = [refs EXCEPT ![repo] = r.rs]
            /\ lastOp' = [Op("set_if_equals", repo) EXCEPT
                             !.name = name, !.old = old, !.new = new, !.cur = r.cur,
                             !.realname = r.realname, !.ret = r.ret, !.err = r.err]
            /\ UNCHANGED <<objs, runnerVars, casVars, ormVars>>

SetSymbolicRef ==
    \E repo \in Repos, other \in BranchNames :
        /\ refs' = [refs EXCEPT ![repo] = set_symbolic_ref(refs[repo], "HEAD", other)]
        /\ lastOp' = [Op("set_symbolic_ref", repo) EXCEPT !.name = "HEAD",
                                                          !.new = SymVal(other)]
        /\ UNCHANGED <<objs, runnerVars, casVars, ormVars>>

AddIfNew ==
    \E repo \in Repos, name \in RefNames, ref \in ShaVals :
        LET r == add_if_new(refs[repo], name, ref)
        IN  /\ refs' = [refs EXCEPT ![repo] = r.rs]
            /\ lastOp' = [Op("add_if_new", repo) EXCEPT
                             !.name = name, !.new = ref, !.cur = refs[repo][name],
                             !.ret = r.ret]
            /\ UNCHANGED <<objs, runnerVars, casVars, ormVars>>

RemoveIfEquals ==
    \E repo \in Repos, name \in RefNames, old \in {RefNone} \cup ShaVals \cup SymVals :
        LET r == remove_if_equals(refs[repo], name, old)
        IN  /\ refs' = [refs EXCEPT ![repo] = r.rs]
            /\ lastOp' = [Op("remove_if_equals", repo) EXCEPT
                             !.name = name, !.old = old, !.cur = refs[repo][name],
                             !.ret = r.ret]
            /\ UNCHANGED <<objs, runnerVars, casVars, ormVars>>

ReadLooseRef ==
    \E repo \in Repos, name \in RefNames :
        /\ lastOp' = [Op("read_loose_ref", repo) EXCEPT
                         !.name = name, !.cur = read_loose_ref(refs[repo], name)]
        /\ UNCHANGED <<objs, refs, runnerVars, casVars, ormVars>>

\* a repo_exists that also counts the rows of the refs table
repo_exists_AnyRow(tbl, rf, name) ==
    \/ \E r \in BagToSet(tbl) : r.repo = name
    \/ \E n \in RefNames : rf[name][n] # RefNone

\* repo_exists: SELECT EXISTS(SELECT 1 FROM objs WHERE repo=%s); the refs table is
\* not consulted
repo_exists(tbl, rf, name) == \E r \in BagToSet(tbl) : r.repo = name

\* list_repos: SELECT DISTINCT repo FROM objs (the order of the rows is not used)
list_repos(tbl) == {r.repo : r \in BagToSet(tbl)}

\* init_bare and open: both construct MysqlRepo(name, connection), which builds the
\* object store and the refs container and issues no statement
InitBare ==
    \E name \in Repos, how \in {"init_bare", "open"} :
        /\ lastOp' = Op(how, name)
        /\ UNCHANGED <<objs, refs, runnerVars, casVars, ormVars>>

RepoExists ==
    \E name \in Repos :
        /\ lastOp' = [Op("repo_exists", name) EXCEPT !.ret = repo_exists(objs, refs, name)]
        /\ UNCHANGED <<objs, refs, runnerVars, casVars, ormVars>>

ListRepos ==
    /\ lastOp' = [NoOp EXCEPT !.op = "list_repos", !.repos = list_repos(objs)]
    /\ UNCHANGED <<objs, refs, runnerVars, casVars, ormVars>>

DeleteRepo ==
    \E name \in Repos :
        LET r == delete_repo(objs, refs, name)
        IN  /\ objs' = r.tbl
            /\ refs' = r.refs
            /\ lastOp' = Op("delete_repo", name)
            /\ UNCHANGED <<runnerVars, casVars, ormVars>>

(***************************************************************************)
(* ReconnectionPool._runWithConnection (specification SpecRunner)          *)
(***************************************************************************)
RETRIES == 3

\* ERRORS = (ConnectionLost, OperationalError, IOError)
ERRORS == {"ConnectionLost", "OperationalError", "IOError"}

NoErr == [cls |-> "none", code |-> 0]
\* exceptions func or conn.commit() may raise: the transient ones, an operational
\* error outside the allowlist (1062), and an exception outside ERRORS
Errs ==
    {[cls |-> "ConnectionLost", code |-> 0], [cls |-> "IOError", code |-> 0],
     [cls |-> "OperationalError", code |-> 2006], [cls |-> "OperationalError", code |-> 2013],
     [cls |-> "OperationalError", code |-> 1213], [cls |-> "OperationalError", code |-> 1062],
     [cls |-> "ValueError", code |-> 0]}
\* what connectionFactory and conn.reconnect() raise when the server cannot be reached
ConnectErr == [cls |-> "OperationalError", code |-> 2003]
\* values func returns
Results == {"r1", "r2"}

\* a handler that gives up only once retries exceeds RETRIES
ReRaises_Gt(n, e) ==
    n > RETRIES \/ (e.cls = "OperationalError" /\ e.code \notin {2006, 2013, 1213})

\* the test of lines 70-71: retries >= RETRIES or
\* isinstance(e, OperationalError) and e[0] not in (2006, 2013, 1213)
ReRaises(n, e) ==
    n >= RETRIES \/ (e.cls = "OperationalError" /\ e.code \notin {2006, 2013, 1213})

\* a factory that hands out the connection object of the first attempt again
connectionFactory_Cached(n) == 1

\* self.connectionFactory(self): a new connection object; n objects were made before
connectionFactory(n) == n + 1

\* a handler that reconnects only in the else branch of the rollback
AfterRollback_Else(ok) == IF ok THEN "reconnect" ELSE "factory"

\* try: conn.rollback() / except: pass / finally: conn.reconnect()
AfterRollback(ok) == "reconnect"

\* a runner that drops the result
ReturnValue_None(result) == "None"

\* return result (line 63)
ReturnValue(result) == result

Ev(ev) == [ev |-> ev, conn |-> conn]
Raised(e) == [kind |-> "raised", err |-> e, result |-> "None"]

\* a top-level call: retries = kw.pop('_retries', 0); args may hold a manager
RunWithConnection ==
    /\ rpc = "idle"
    /\ rpc' = "factory"
    /\ retries' = 0
    /\ \E hasManager \in BOOLEAN : managerConn' = IF hasManager THEN 0 ELSE -1
    /\ UNCHANGED <<conn, factoryCalls, curErr, funcResult, outcome, log, storeVars, casVars,
                   ormVars>>

\* line 45 and lines 46-58: the connection of this level, injected into the manager
ConnectionFactory ==
    /\ rpc = "factory"
    /\ \/ /\ conn' = connectionFactory(factoryCalls)
          /\ factoryCalls' = factoryCalls + 1
          /\ managerConn' = IF managerConn # -1 THEN conn' ELSE managerConn
          /\ log' = Append(log, [ev |-> "factory", conn |-> conn'])
          /\ rpc' = "func"
          /\ UNCHANGED outcome
       \/ /\ factoryCalls' = factoryCalls + 1
          /\ outcome' = Raised(ConnectErr)
          /\ rpc' = "done"
          /\ UNCHANGED <<conn, managerConn, log>>
    /\ UNCHANGED <<retries, curErr, funcResult, storeVars, casVars, ormVars>>

\* line 61: result = func(conn, *args, **kw)
Func ==
    /\ rpc = "func"
    /\ \/ \E r \in Results :
              /\ funcResult' = r
              /\ log' = Append(log, Ev("func_ok"))
              /\ rpc' = "commit"
              /\ UNCHANGED curErr
       \/ \E e \in Errs :
              /\ curErr' = e
              /\ log' = Append(log, Ev("func_err"))
              /\ rpc' = "caught"
              /\ UNCHANGED funcResult
    /\ UNCHANGED <<retries, conn, factoryCalls, managerConn, outcome, storeVars, casVars,
                   ormVars>>

\* lines 62-63: conn.commit(); return result
Commit ==
    /\ rpc = "commit"
    /\ \/ /\ log' = Append(log, Ev("commit_ok"))
          /\ outcome' = [kind |-> "returned", err |-> NoErr, result |-> ReturnValue(funcResult)]
          /\ rpc' = "done"
          /\ UNCHANGED curErr
       \/ \E e \in Errs :
              /\ curErr' = e
              /\ log' = Append(log, Ev("commit_err"))
              /\ rpc' = "caught"
              /\ UNCHANGED outcome
    /\ UNCHANGED <<retries, conn, factoryCalls, managerConn, funcResult, storeVars, casVars,
                   ormVars>>

\* lines 64-72: except ERRORS as e, the bound is reached or the code is not allowlisted: raise
ReRaise ==
    /\ rpc = "caught"
    /\ curErr.cls \in ERRORS
    /\ ReRaises(retries, curErr)
    /\ outcome' = Raised(curErr)
    /\ rpc' = "done"
    /\ UNCHANGED <<retries, conn, factoryCalls, managerConn, curErr, funcResult, log,
                   storeVars, casVars, ormVars>>

\* lines 73-77: except ERRORS as e, to be retried: conn.rollback(), whose failure is ignored
RollbackRetry ==
    /\ rpc = "caught"
    /\ curErr.cls \in ERRORS
    /\ ~ReRaises(retries, curErr)
    /\ \/ /\ log' = Append(log, Ev("rollback_ok"))
          /\ rpc' = AfterRollback(TRUE)
       \/ /\ log' = Append(log, Ev("rollback_err"))
          /\ rpc' = AfterRollback(FALSE)
    /\ UNCHANGED <<retries, conn, factoryCalls, managerConn, curErr, funcResult, outcome,
                   storeVars, casVars, ormVars>>

\* lines 78-81: conn.reconnect(); kw['_retries'] = retries + 1; the recursive call
Reconnect ==
    /\ rpc = "reconnect"
    /\ \/ /\ log' = Append(log, Ev("reconnect_ok"))
          /\ retries' = retries + 1
          /\ curErr' = NoErr
          /\ rpc' = "factory"
          /\ UNCHANGED outcome
       \/ /\ log' = Append(log, Ev("reconnect_err"))
          /\ outcome' = Raised(ConnectErr)
          /\ rpc' = "done"
          /\ UNCHANGED <<retries, curErr>>
    /\ UNCHANGED <<conn, factoryCalls, managerConn, funcResult, storeVars, casVars, ormVars>>

\* lines 82-88: any other exception: conn.rollback(), whose failure is ignored, then raise
RollbackFinal ==
    /\ rpc = "caught"
    /\ curErr.cls \notin ERRORS
    /\ \/ log' = Append(log, Ev("rollback_ok"))
       \/ log' = Append(log, Ev("rollback_err"))
    /\ outcome' = Raised(curErr)
    /\ rpc' = "done"
    /\ UNCHANGED <<retries, conn, factoryCalls, managerConn, curErr, funcResult,
                   storeVars, casVars, ormVars>>

(***************************************************************************)
(* Two transactions calling set_if_equals on one ref (specification        *)
(* SpecCAS). Each transaction is a unit of work of _runWithConnection on   *)
(* its own connection: its REPLACE becomes visible at conn.commit(), and   *)
(* the row locks it took are held until its commit or rollback.            *)
(***************************************************************************)
Txns == {"t1", "t2"}
CasRepo == "A"
CasName == "refs/heads/master"
\* the value stored before either transaction runs, which both pass as old_ref
CasOld == Sha("h1")
\* the new_ref arguments
CasNew == {Sha("h2"), Sha("h3")}
NoWrite == [name |-> "", value |-> RefNone]

\* a GET without FOR UPDATE: a plain consistent read that takes no lock
GET_NoLock == FALSE

\* statement GET of MysqlRefsContainer ends in FOR UPDATE: the read locks the row
GET_ForUpdate == TRUE

\* the refs of the namespace as transaction t reads them
View(t) ==
    IF twrite[t] = NoWrite THEN refs[CasRepo]
    ELSE [refs[CasRepo] EXCEPT ![twrite[t].name] = twrite[t].value]

LockFree(name, t) == lockHolder[name] \in {"none", t}
Release(t) == [n \in RefNames |-> IF lockHolder[n] = t THEN "none" ELSE lockHolder[n]]

\* line 348: current_ref = self.read_loose_ref(name)
TxnRead(t) ==
    /\ tpc[t] = "start"
    /\ GET_ForUpdate => LockFree(CasName, t)
    /\ lockHolder' = IF GET_ForUpdate THEN [lockHolder EXCEPT ![CasName] = t] ELSE lockHolder
    /\ tcur' = [tcur EXCEPT ![t] = read_loose_ref(View(t), CasName)]
    /\ tpc' = [tpc EXCEPT ![t] = "compare"]
    /\ UNCHANGED <<tnew, treal, tres, twrite, aborts, storeVars, runnerVars, ormVars>>

\* lines 349-350: if old_ref != current_ref: return False
TxnCompare(t) ==
    /\ tpc[t] = "compare"
    /\ IF CasOld # tcur[t]
       THEN /\ tres' = [tres EXCEPT ![t] = "False"]
            /\ tpc' = [tpc EXCEPT ![t] = "commit"]
       ELSE /\ tpc' = [tpc EXCEPT ![t] = "follow"]
            /\ UNCHANGED tres
    /\ UNCHANGED <<tnew, tcur, treal, twrite, lockHolder, aborts, storeVars, runnerVars,
                   ormVars>>

\* lines 351-352: realname, _ = self._follow(name); it reads the ref with GET again
TxnFollow(t) ==
    /\ tpc[t] = "follow"
    /\ GET_ForUpdate => LockFree(CasName, t)
    /\ treal' = [treal EXCEPT ![t] = _follow(View(t), CasName, 0).realname]
    /\ tpc' = [tpc EXCEPT ![t] = "update"]
    /\ UNCHANGED <<tnew, tcur, tres, twrite, lockHolder, aborts, storeVars, runnerVars,
                   ormVars>>

\* lines 353-354: self._update_ref(realname, new_ref); return True
TxnUpdate(t) ==
    /\ tpc[t] = "update"
    /\ LockFree(treal[t], t)
    /\ lockHolder' = [lockHolder EXCEPT ![treal[t]] = t]
    /\ twrite' = [twrite EXCEPT ![t] = [name |-> treal[t], value |-> tnew[t]]]
    /\ tres' = [tres EXCEPT ![t] = "True"]
    /\ tpc' = [tpc EXCEPT ![t] = "commit"]
    /\ UNCHANGED <<tnew, tcur, treal, aborts, storeVars, runnerVars, ormVars>>

\* conn.commit() of the unit of work: the write is published and the locks are released
TxnCommit(t) ==
    /\ tpc[t] = "commit"
    /\ refs' = [refs EXCEPT ![CasRepo] = View(t)]
    /\ twrite' = [twrite EXCEPT ![t] = NoWrite]
    /\ lockHolder' = Release(t)
    /\ tpc' = [tpc EXCEPT ![t] = "done"]
    /\ UNCHANGED <<objs, lastOp, tnew, tcur, treal, tres, aborts, runnerVars, ormVars>>

\* a transient failure in the unit of work: conn.rollback(), conn.reconnect() and the
\* whole operation starts again
TxnAbort(t) ==
    /\ tpc[t] \in {"compare", "follow", "update", "commit"}
    /\ aborts[t] < MaxAborts
    /\ aborts' = [aborts EXCEPT ![t] = @ + 1]
    /\ twrite' = [twrite EXCEPT ![t] = NoWrite]
    /\ tres' = [tres EXCEPT ![t] = "None"]
    /\ tcur' = [tcur EXCEPT ![t] = RefNone]
    /\ treal' = [treal EXCEPT ![t] = ""]
    /\ lockHolder' = Release(t)
    /\ tpc' = [tpc EXCEPT ![t] = "start"]
    /\ UNCHANGED <<tnew, storeVars, runnerVars, ormVars>>

(***************************************************************************)
(* slyd.orm: models, snapshot data stores, relationships, load and save.   *)
(* All instances are bound to one Storage collaborator, so one instance    *)
(* per data_key and snapshot order stands for every handle on that key.    *)
(***************************************************************************)
\* ModelSnapshots.default_snapshots
default_snapshots == <<"working", "staged", "committed">>
Generations == {"working", "staged", "committed"}
\* the snapshot orders instances are made with: the default, ('committed',) in
\* create_object and new_collection, ('staged', 'committed') in _commit_changes
SnapshotOrders == {default_snapshots, <<"committed">>, <<"staged", "committed">>}

\* the registered models: Project, Schema, Field, Spider and Sample of models.py, the
\* one-to-one pair, the parent and child and the self-owned ManyFileModel of
\* tests/models.py
Models ==
    {"Project", "Schema", "Field", "OneToOneModel1", "OneToOneModel2", "Spider",
     "Sample", "ParentModel", "ChildModel", "ManyFileModel"}
\* the primary keys instances are constructed with; a data_key is (model, key)
Keys ==
    [Project |-> {"P"}, Schema |-> {"s1", "s2"}, Field |-> {"f1", "f2"},
     OneToOneModel1 |-> {"a1", "a2"}, OneToOneModel2 |-> {"b1", "b2"},
     Spider |-> {"sp1", "sp2"}, Sample |-> {"x1", "x2"},
     ParentModel |-> {"p1", "p2"}, ChildModel |-> {"c1", "c2"},
     ManyFileModel |-> {"m1", "m2"}]
Ents == UNION {Keys[m] : m \in Models}
\* SpecData: the names of Python instances, all made as Schema(..., id='s1')
Instances == {"i1", "i2"}
InstanceKey == "s1"
\* the keys of shared_data_store: a data_key under the storage, or an instance
StoreKeys == Ents \cup Instances
ModelOf(e) == IF e \in Instances THEN "Schema" ELSE CHOOSE m \in Models : e \in Keys[m]

\* cls._pk_field
_pk_field(m) == IF m = "Project" THEN "name" ELSE "id"

\* cls._fields: Field.type, required and vary behave as Field.name and are left out,
\* as are Project.extractors, the plain fields of Spider but its id, the plain fields of
\* Sample but id and name, its items, and the field of ParentModel, ChildModel and
\* ManyFileModel
_fields(m) ==
    CASE m = "Project" -> {"name", "spiders", "schemas"}
      [] m = "Schema" -> {"id", "name", "project", "fields"}
      [] m = "Field" -> {"id", "name", "schema"}
      [] m = "OneToOneModel1" -> {"id", "field", "m2"}
      [] m = "OneToOneModel2" -> {"id", "field", "m1"}
      [] m = "Spider" -> {"id", "project", "samples"}
      [] m = "Sample" -> {"id", "name", "spider"}
      [] m = "ParentModel" -> {"id", "children"}
      [] m = "ChildModel" -> {"id", "parent"}
      [] m = "ManyFileModel" -> {"id", "owner"}
FieldNames == UNION {_fields(m) : m \in Models}

\* the declaration of a field: a plain Field, or BelongsTo / HasMany with the related
\* model, related_name, only ("" for None) and ignore_in_file
PlainField ==
    [kind |-> "Field", model |-> "", related_name |-> "", only |-> "",
     ignore_in_file |-> FALSE]
Relationship(kind, model, related_name, only, ignore_in_file) ==
    [kind |-> kind, model |-> model, related_name |-> related_name, only |-> only,
     ignore_in_file |-> ignore_in_file]
FieldDecl(m, f) ==
    CASE m = "Project" /\ f = "spiders" ->
             Relationship("HasMany", "Spider", "project", "", TRUE)
      [] m = "Project" /\ f = "schemas" ->
             Relationship("HasMany", "Schema", "project", "", TRUE)
      [] m = "Schema" /\ f = "project" ->
             Relationship("BelongsTo", "Project", "schemas", "", TRUE)
      [] m = "Schema" /\ f = "fields" ->
             Relationship("HasMany", "Field", "schema", "", FALSE)
      [] m = "Field" /\ f = "schema" ->
             Relationship("BelongsTo", "Schema", "fields", "", TRUE)
      [] m = "OneToOneModel1" /\ f = "m2" ->
             Relationship("BelongsTo", "OneToOneModel2", "m1", "id", FALSE)
      [] m = "OneToOneModel2" /\ f = "m1" ->
             Relationship("BelongsTo", "OneToOneModel1", "m2", "", FALSE)
      [] m = "Spider" /\ f = "project" ->
             Relationship("BelongsTo", "Project", "spiders", "", TRUE)
      [] m = "Spider" /\ f = "samples" ->
             Relationship("HasMany", "Sample", "spider", "id", FALSE)
      [] m = "Sample" /\ f = "spider" ->
             Relationship("BelongsTo", "Spider", "samples", "id", FALSE)
      [] m = "ParentModel" /\ f = "children" ->
             Relationship("HasMany", "ChildModel", "parent", "", FALSE)
      [] m = "ChildModel" /\ f = "parent" ->
             Relationship("BelongsTo", "ParentModel", "children", "id", FALSE)
      [] m = "ManyFileModel" /\ f = "owner" ->
             Relationship("BelongsTo", "ManyFileModel", "owner", "", TRUE)
      [] OTHER -> PlainField
IsRelationship(m, f) == FieldDecl(m, f).kind # "Field"

\* cls._file_fields: the fields that are not ignore_in_file
_file_fields(m) == {f \in _fields(m) : ~FieldDecl(m, f).ignore_in_file}

\* cls.opts: Meta.path, Meta.owner ("" for False), Meta.envelope and
\* Meta.envelope_remove_key; a path that names fields is kept as the template
opts(m) ==
    CASE m = "Project" ->
             [path |-> "project.json", owner |-> "", envelope |-> FALSE,
              envelope_remove_key |-> FALSE]
      [] m = "Schema" ->
             [path |-> "items.json", owner |-> "project", envelope |-> TRUE,
              envelope_remove_key |-> TRUE]
      [] m = "Field" ->
             [path |-> "items.json", owner |-> "schema", envelope |-> TRUE,
              envelope_remove_key |-> FALSE]
      [] m = "OneToOneModel1" ->
             [path |-> "o2o-model-1.json", owner |-> "", envelope |-> FALSE,
              envelope_remove_key |-> FALSE]
      [] m = "OneToOneModel2" ->
             [path |-> "o2o-model-2.json", owner |-> "", envelope |-> FALSE,
              envelope_remove_key |-> FALSE]
      [] m = "Spider" ->
             [path |-> "spiders/{self.id}.json", owner |-> "", envelope |-> FALSE,
              envelope_remove_key |-> FALSE]
      [] m = "Sample" ->
             [path |-> "spiders/{self.spider.id}/{self.id}.json", owner |-> "",
              envelope |-> FALSE, envelope_remove_key |-> FALSE]
      [] m = "ParentModel" ->
             [path |-> "parents.json", owner |-> "", envelope |-> FALSE,
              envelope_remove_key |-> FALSE]
      [] m = "ChildModel" ->
             [path |-> "{self.parent.id}/children.json", owner |-> "parent",
              envelope |-> FALSE, envelope_remove_key |-> FALSE]
      [] m = "ManyFileModel" ->
             [path |-> "many.json", owner |-> "owner", envelope |-> FALSE,
              envelope_remove_key |-> FALSE]

\* the rendering of the three templates
SpiderPath(id) == "spiders/" \o id \o ".json"
SamplePath(spider, id) == "spiders/" \o spider \o "/" \o id \o ".json"
ChildrenPath(parent) == parent \o "/children.json"
\* the paths the models can render to
Paths ==
    {opts(m).path : m \in Models \ {"Spider", "Sample", "ChildModel"}}
        \cup {SpiderPath(id) : id \in Keys.Spider}
        \cup {SamplePath(spider, id) : spider \in Keys.Spider, id \in Keys.Sample}
        \cup {ChildrenPath(parent) : parent \in Keys.ParentModel}

\* values of a field in a generation: no entry, None, a string, a model instance
\* (by data_key) or a collection of instances
Absent == [k |-> "absent"]
NoneV == [k |-> "None"]
Str(s) == [k |-> "str", s |-> s]
Inst(e) == [k |-> "inst", e |-> e]
Coll(items) == [k |-> "coll", items |-> items]
\* a value that is an instance of no model
Other == [k |-> "other"]
\* bool(value) as __set__ tests it: None is false, an instance is true
Truthy(v) == v.k \notin {"None", "absent"}

\* F applied to the value of v, which is computed once
Bind(v, F(_)) == CHOOSE y \in {F(b) : b \in {v}} : TRUE

\* a snapshot store with no entry
EmptyStore == [g \in Generations |-> [f \in FieldNames |-> Absent]]

\* ModelSnapshots.get(key, snapshots): the value in the first generation of the order
\* that has an entry; Absent stands for the KeyError
RECURSIVE ModelSnapshots_get(_, _, _)
ModelSnapshots_get(st, key, snapshots) ==
    IF snapshots = <<>> THEN Absent
    ELSE IF st[Head(snapshots)][key] # Absent THEN st[Head(snapshots)][key]
    ELSE ModelSnapshots_get(st, key, Tail(snapshots))

\* ModelSnapshots.set(key, value, snapshot): writes one generation
ModelSnapshots_set(st, key, value, snapshot) == [st EXCEPT ![snapshot][key] = value]

(***************************************************************************)
(* Storage documents and Model.load                                        *)
(***************************************************************************)
\* no document at the path
Missing == [k |-> "missing"]
\* a document that exists and whose storage.open(path).read() or json.loads raises
Unreadable == [k |-> "unreadable"]
\* project.json: {"name": ...}
ProjectDoc(name) == [k |-> "project", name |-> name]
\* the body of an envelope entry does not carry the primary-key field
NoKey == ""
\* items.json: the envelope of schemas, each with its name and the envelope of its
\* fields; key is the envelope key, id the primary key carried in the body: wrap_envelopes
\* keeps it in the body of a Field and removes it from the body of a Schema
FieldBody(key, name) == [key |-> key, id |-> key, name |-> name]
SchemaBody(key, name, fields) ==
    [key |-> key, id |-> NoKey, name |-> name, fields |-> fields]
SchemasDoc(items) == [k |-> "schemas", items |-> items]
\* spiders/<id>.json: the id and, as template_names, the ids of the samples
SpiderDoc(id, template_names) ==
    [k |-> "spider", id |-> id, template_names |-> template_names]
\* spiders/<spider>/<id>.json: the sample with the id of its spider
SampleDoc(id, name, spider) == [k |-> "sample", id |-> id, name |-> name, spider |-> spider]
\* a child as parents.json nests it and <parent>/children.json lists it
ChildBody(id, parent) == [id |-> id, parent |-> parent]
ParentDoc(id, children) == [k |-> "parent", id |-> id, children |-> children]
ChildrenDoc(items) == [k |-> "children", items |-> items]

\* the state the model operations work on
\* err names the exception a load has raised in the operation at hand
World(d, l, f, c) == [data |-> d, loaded |-> l, files |-> f, calls |-> c, err |-> "ok"]
Call(fn, path) == [fn |-> fn, path |-> path]

\* an unwrapping that never compares the key with the body
RECURSIVE unwrap_envelopes_Unchecked(_, _)
unwrap_envelopes_Unchecked(m, bodies) ==
    IF bodies = <<>> THEN [err |-> "ok", bodies |-> <<>>]
    ELSE Bind(unwrap_envelopes_Unchecked(m, Tail(bodies)),
              LAMBDA rest :
                  [err |-> "ok",
                   bodies |-> <<[Head(bodies) EXCEPT !.id = Head(bodies).key]>>
                                  \o rest.bodies])

\* an unwrapping that checks the key but leaves the body as it is
RECURSIVE unwrap_envelopes_NoInject(_, _)
unwrap_envelopes_NoInject(m, bodies) ==
    IF bodies = <<>> THEN [err |-> "ok", bodies |-> <<>>]
    ELSE IF /\ ~opts(m).envelope_remove_key
            /\ Head(bodies).id # NoKey
            /\ Head(bodies).id # Head(bodies).key
    THEN [err |-> "ValidationError", bodies |-> <<>>]
    ELSE Bind(unwrap_envelopes_NoInject(m, Tail(bodies)),
              LAMBDA rest :
                  IF rest.err # "ok" THEN rest
                  ELSE [err |-> "ok", bodies |-> <<Head(bodies)>> \o rest.bodies])

\* BaseFileSchema.unwrap_envelopes for the entries of an envelope, in document order:
\* unless the model removes the key from the body, a body that carries another primary
\* key than the envelope key raises ValidationError; the key is then stored in the
\* body under the primary-key field
RECURSIVE unwrap_envelopes(_, _)
unwrap_envelopes(m, bodies) ==
    IF bodies = <<>> THEN [err |-> "ok", bodies |-> <<>>]
    ELSE IF /\ ~opts(m).envelope_remove_key
            /\ Head(bodies).id # NoKey
            /\ Head(bodies).id # Head(bodies).key
    THEN [err |-> "ValidationError", bodies |-> <<>>]
    ELSE Bind(unwrap_envelopes(m, Tail(bodies)),
              LAMBDA rest :
                  IF rest.err # "ok" THEN rest
                  ELSE [err |-> "ok",
                        bodies |-> <<[Head(bodies) EXCEPT !.id = Head(bodies).key]>>
                                       \o rest.bodies])

\* create_object for the body of a Field: Field(storage, snapshots=('committed',),
\* id=..., name=...) sets every key of the body in the committed generation
create_field(d, body) ==
    [d EXCEPT ![body.key]["committed"]["id"] = Str(body.id),
              ![body.key]["committed"]["name"] = Str(body.name)]

RECURSIVE create_fields(_, _)
create_fields(d, bodies) ==
    IF bodies = <<>> THEN d
    ELSE Bind(create_field(d, Head(bodies)),
              LAMBDA d1 : create_fields(d1, Tail(bodies)))

\* the keys of a sequence of bodies, in document order
KeysOf(bodies) == [i \in 1..Len(bodies) |-> bodies[i].key]

\* create_object for the body of a Schema: the nested fields are created first, then
\* Schema(storage, snapshots=('committed',), id=key, name=..., fields=[...]); the
\* has-many value is stored with each field pointing back to the schema
create_schema(d, body) ==
    Bind([create_fields(d, unwrap_envelopes("Field", body.fields).bodies) EXCEPT
              ![body.key]["committed"]["id"] = Str(body.id),
              ![body.key]["committed"]["name"] = Str(body.name),
              ![body.key]["committed"]["fields"] = Coll(KeysOf(body.fields))],
         LAMBDA d2 :
             [e \in DOMAIN d2 |->
                 IF \E i \in 1..Len(body.fields) : body.fields[i].key = e
                 THEN [d2[e] EXCEPT !["committed"]["schema"] = Inst(body.key)]
                 ELSE d2[e]])

RECURSIVE create_schemas(_, _)
create_schemas(d, bodies) ==
    IF bodies = <<>> THEN d
    ELSE Bind(create_schema(d, Head(bodies)),
              LAMBDA d1 : create_schemas(d1, Tail(bodies)))

\* the nested load of the fields envelopes of a failed load: an envelope that unwraps
\* has its Field objects created, no Schema object is created
RECURSIVE create_nested(_, _)
create_nested(d, bodies) ==
    IF bodies = <<>> THEN d
    ELSE Bind(unwrap_envelopes("Field", Head(bodies).fields),
              LAMBDA fs :
                  Bind(IF fs.err = "ok" THEN create_fields(d, fs.bodies) ELSE d,
                       LAMBDA d1 : create_nested(d1, Tail(bodies))))

\* the ids of a sequence of bodies, in document order
IdsOf(bodies) == [i \in 1..Len(bodies) |-> bodies[i].id]

\* create_object for the id a relationship with only='id' is loaded from:
\* Model(storage, snapshots=('committed',), id=id)
create_only(d, id) == [d EXCEPT ![id]["committed"]["id"] = Str(id)]

RECURSIVE create_samples(_, _)
create_samples(d, ids) ==
    IF ids = <<>> THEN d
    ELSE Bind(create_only(d, Head(ids)), LAMBDA d1 : create_samples(d1, Tail(ids)))

\* create_object for the body of a ChildModel: the parent is made from its id, then
\* ChildModel(storage, snapshots=('committed',), id=..., parent=...)
create_child(d, body) ==
    [create_only(d, body.parent) EXCEPT
         ![body.id]["committed"]["id"] = Str(body.id),
         ![body.id]["committed"]["parent"] = Inst(body.parent)]

RECURSIVE create_children(_, _)
create_children(d, bodies) ==
    IF bodies = <<>> THEN d
    ELSE Bind(create_child(d, Head(bodies)),
              LAMBDA d1 : create_children(d1, Tail(bodies)))

\* the has-many value set by create_object: the collection is stored and each member
\* points back to its owner
set_collection(d, e, attrname, related_name, items) ==
    [k \in DOMAIN d |->
        IF k = e THEN [d[k] EXCEPT !["committed"][attrname] = Coll(items)]
        ELSE IF \E i \in 1..Len(items) : items[i] = k
        THEN [d[k] EXCEPT !["committed"][related_name] = Inst(e)]
        ELSE d[k]]

\* file_schema(strict=True).load(file_data, many=many): the envelope is unwrapped, the
\* nested envelopes are unwrapped and their objects created, then the objects of the
\* document are created; the result lists their keys. An envelope that does not
\* unwrap ends the load with ValidationError before the objects of its level are
\* created.
file_schema_load(d, doc) ==
    CASE doc.k = "project" ->
             [data |-> [d EXCEPT ![doc.name]["committed"]["name"] = Str(doc.name)],
              result |-> <<doc.name>>, err |-> "ok"]
      [] doc.k = "schemas" ->
             Bind(unwrap_envelopes("Schema", doc.items),
                  LAMBDA u :
                      IF u.err # "ok"
                      THEN [data |-> d, result |-> <<>>, err |-> u.err]
                      ELSE IF \E i \in 1..Len(u.bodies) :
                                  unwrap_envelopes("Field", u.bodies[i].fields).err # "ok"
                      THEN [data |-> create_nested(d, u.bodies), result |-> <<>>,
                            err |-> "ValidationError"]
                      ELSE [data |-> create_schemas(d, u.bodies),
                            result |-> KeysOf(u.bodies), err |-> "ok"])
      [] doc.k = "spider" ->
             [data |-> set_collection(
                           create_only(create_samples(d, doc.template_names), doc.id),
                           doc.id, "samples", "spider", doc.template_names),
              result |-> <<doc.id>>, err |-> "ok"]
      [] doc.k = "sample" ->
             [data |-> [create_only(d, doc.spider) EXCEPT
                           ![doc.id]["committed"]["id"] = Str(doc.id),
                           ![doc.id]["committed"]["name"] = Str(doc.name),
                           ![doc.id]["committed"]["spider"] = Inst(doc.spider)],
              result |-> <<doc.id>>, err |-> "ok"]
      [] doc.k = "parent" ->
             [data |-> set_collection(
                           create_only(create_children(d, doc.children), doc.id),
                           doc.id, "children", "parent", IdsOf(doc.children)),
              result |-> <<doc.id>>, err |-> "ok"]
      [] doc.k = "children" ->
             [data |-> create_children(d, doc.items), result |-> IdsOf(doc.items),
              err |-> "ok"]
      [] OTHER -> [data |-> d, result |-> <<>>, err |-> "ok"]

\* a storage_path that renders every order as the default order
storage_path_DefaultOrder(m, d, e, isInstance, snapshots) ==
    LET own == ModelSnapshots_get(d[e], "id", default_snapshots)
        related(attrname) == ModelSnapshots_get(d[e], attrname, default_snapshots)
        related_id(attrname) ==
            IF related(attrname).k = "inst"
            THEN ModelSnapshots_get(d[related(attrname).e], "id", default_snapshots)
            ELSE Absent
    IN  CASE m = "Spider" ->
                 IF own.k = "str" THEN SpiderPath(own.s) ELSE ""
          [] m = "Sample" ->
                 IF own.k = "str" /\ related_id("spider").k = "str"
                 THEN SamplePath(related_id("spider").s, own.s) ELSE ""
          [] m = "ChildModel" ->
                 IF related_id("parent").k = "str"
                 THEN ChildrenPath(related_id("parent").s) ELSE ""
          [] OTHER -> opts(m).path

\* Model.storage_path(data, snapshots): Meta.path rendered against the accessor of the
\* instance e under the snapshots, which related instances are read under as well, or
\* against the keyword arguments {related_name: e}, whose instance is read under its
\* own order; "" stands for None and for a path that could not be resolved
storage_path(m, d, e, isInstance, snapshots) ==
    LET own == IF isInstance THEN ModelSnapshots_get(d[e], "id", snapshots) ELSE Absent
        related(attrname) ==
            IF isInstance THEN ModelSnapshots_get(d[e], attrname, snapshots) ELSE Inst(e)
        related_id(attrname) ==
            IF related(attrname).k = "inst"
            THEN ModelSnapshots_get(d[related(attrname).e], "id",
                                    IF isInstance THEN snapshots ELSE default_snapshots)
            ELSE Absent
    IN  CASE m = "Spider" ->
                 IF own.k = "str" THEN SpiderPath(own.s) ELSE ""
          [] m = "Sample" ->
                 IF own.k = "str" /\ related_id("spider").k = "str"
                 THEN SamplePath(related_id("spider").s, own.s) ELSE ""
          [] m = "ChildModel" ->
                 IF related_id("parent").k = "str"
                 THEN ChildrenPath(related_id("parent").s) ELSE ""
          [] OTHER -> opts(m).path

\* a load that does not look at the loaded set
AlreadyLoaded_Never(path, loadedPaths) == FALSE

\* line 395: path in cls.loaded.setdefault(storage, set())
AlreadyLoaded(path, loadedPaths) == path \in loadedPaths

\* the result of a load that returned None
NoResult == [isNone |-> TRUE, items |-> <<>>]
Loaded(items) == [isNone |-> FALSE, items |-> items]

\* a load that records the path only when the document was there and was read
load_MarkWhenRead(w, m, e, hasInstance) ==
    LET path == storage_path(m, w.data, e, hasInstance, <<"committed", "working">>)
        many == opts(m).owner # ""
        w1 == [w EXCEPT !.loaded = @ \cup {path},
                        !.calls = Append(@, Call("exists", path))]
    IN  IF m = "Sample" /\ ~hasInstance THEN [w |-> w, result |-> Loaded(<<>>)]
        ELSE IF path = "" THEN [w |-> w, result |-> NoResult]
        ELSE IF hasInstance /\ many
                /\ ModelSnapshots_get(w.data[e], _pk_field(m), default_snapshots) = Absent
        THEN [w |-> w, result |-> NoResult]
        ELSE IF AlreadyLoaded(path, w.loaded) THEN [w |-> w, result |-> NoResult]
        ELSE IF w.files[path] = Missing
        THEN [w |-> [w1 EXCEPT !.loaded = w.loaded],
              result |-> IF many THEN Loaded(<<>>) ELSE NoResult]
        ELSE IF w.files[path] = Unreadable
        THEN [w |-> [w1 EXCEPT !.calls = Append(@, Call("open", path)),
                               !.loaded = w.loaded, !.err = "IOError"],
              result |-> NoResult]
        ELSE Bind(file_schema_load(w.data, w.files[path]),
                  LAMBDA r :
                      [w |-> [w1 EXCEPT !.calls = Append(@, Call("open", path)),
                                        !.data = r.data, !.err = r.err,
                                        !.loaded = IF r.err = "ok" THEN @ ELSE w.loaded],
                       result |-> IF r.err = "ok" THEN Loaded(r.result) ELSE NoResult])

\* Model.load(storage, instance=instance) when hasInstance, else
\* Model.load(storage, **{related_name: owner}); e is the instance or the owner.
\* Sample.load returns an empty collection when it is given a spider and no instance.
load(w, m, e, hasInstance) ==
    LET path == storage_path(m, w.data, e, hasInstance, <<"committed", "working">>)
        many == opts(m).owner # ""
        w1 == [w EXCEPT !.loaded = @ \cup {path},
                        !.calls = Append(@, Call("exists", path))]
    IN  IF m = "Sample" /\ ~hasInstance THEN [w |-> w, result |-> Loaded(<<>>)]
        ELSE IF path = "" THEN [w |-> w, result |-> NoResult]
        ELSE IF hasInstance /\ many
                /\ ModelSnapshots_get(w.data[e], _pk_field(m), default_snapshots) = Absent
        THEN [w |-> w, result |-> NoResult]
        ELSE IF AlreadyLoaded(path, w.loaded) THEN [w |-> w, result |-> NoResult]
        ELSE IF w.files[path] = Missing
        THEN [w |-> w1, result |-> IF many THEN Loaded(<<>>) ELSE NoResult]
        ELSE IF w.files[path] = Unreadable
        THEN [w |-> [w1 EXCEPT !.calls = Append(@, Call("open", path)),
                               !.err = "IOError"],
              result |-> NoResult]
        ELSE Bind(file_schema_load(w.data, w.files[path]),
                  LAMBDA r :
                      [w |-> [w1 EXCEPT !.calls = Append(@, Call("open", path)),
                                        !.data = r.data, !.err = r.err],
                       result |-> IF r.err = "ok" THEN Loaded(r.result) ELSE NoResult])

\* Model.resolve_attributes: the first attribute that is a file field without a value
\* under the snapshots starts the load of the document
resolve_attributes(w, e, attributes, snapshots) ==
    LET m == ModelOf(e)
    IN  IF \E a \in attributes :
               /\ a \in _file_fields(m)
               /\ ModelSnapshots_get(w.data[e], a, snapshots) = Absent
        THEN load(w, m, e, TRUE).w
        ELSE w

\* a get_data that reads the committed generation before the others
get_data_CommittedFirst(w, e, snapshots, key) ==
    Bind(resolve_attributes(w, e, {key}, snapshots),
         LAMBDA w1 : [w |-> w1,
                      ret |-> ModelSnapshots_get(w1.data[e], key,
                                                 <<"committed", "staged", "working">>)])

\* Model.get_data(key, default): ret is Absent when no generation of the order holds key
\* (no value is returned when the load has raised)
get_data(w, e, snapshots, key) ==
    Bind(resolve_attributes(w, e, {key}, snapshots),
         LAMBDA w1 : [w |-> w1,
                      ret |-> IF w1.err # "ok" THEN Absent
                              ELSE ModelSnapshots_get(w1.data[e], key, snapshots)])

\* Model.set_data(key, value): writes the first generation of the instance's order
set_data(w, e, snapshots, key, value) ==
    [w EXCEPT !.data[e] = ModelSnapshots_set(@, key, value, Head(snapshots))]

(***************************************************************************)
(* Model operations (specifications SpecData, ...)                         *)
(***************************************************************************)
NoOrmOp ==
    [op |-> "none", inst |-> "", ent |-> "", snapshots |-> <<>>, key |-> "",
     value |-> Absent, ret |-> Absent, err |-> "ok", only |-> {}]

\* the state before an operation, with no Storage call made yet
Now == World(data, loaded, files, <<>>)

\* number of Storage.open(path) calls in a sequence of calls
OpenCalls(cs, path) == Cardinality({i \in 1..Len(cs) : cs[i] = Call("open", path)})

\* the state an operation leaves
Becomes(w) ==
    /\ data' = w.data
    /\ loaded' = w.loaded
    /\ files' = w.files
    /\ calls' = w.calls
    /\ opens' = [p \in Paths |-> opens[p] + OpenCalls(w.calls, p)]

\* an instance that was not made yet
NoInstance == [snapshots |-> <<>>, storage |-> FALSE]

\* a data_store that is kept per instance
data_store_PerInstance(i, inst) == i

\* Model.data_store: shared_data_store[storage][data_key] when the instance has a
\* storage, else shared_data_store[self]
data_store(i, inst) == IF inst.storage THEN InstanceKey ELSE i

\* the snapshot orders SpecData makes instances with
DataOrders == {default_snapshots, <<"committed">>}
\* the values SpecData assigns to plain fields
DataValues == {Str("x"), Str("y")}

\* i = Schema(storage, snapshots, id='s1'): __init__ assigns the primary key, which the
\* field descriptor hands to set_data
ModelInit ==
    \E i \in Instances, snapshots \in DataOrders :
        LET inst == [snapshots |-> snapshots, storage |-> TRUE]
        IN  /\ instances' = [instances EXCEPT ![i] = inst]
            /\ Becomes(set_data(Now, data_store(i, inst), snapshots, "id",
                                Str(InstanceKey)))
            /\ ormOp' = [NoOrmOp EXCEPT !.op = "__init__", !.inst = i,
                                        !.snapshots = snapshots]
            /\ UNCHANGED <<storeVars, runnerVars, casVars>>

\* i.set_data('name', value)
SetData ==
    \E i \in Instances, value \in DataValues :
        LET inst == instances[i]
        IN  /\ inst # NoInstance
            /\ Becomes(set_data(Now, data_store(i, inst), inst.snapshots, "name", value))
            /\ ormOp' = [NoOrmOp EXCEPT !.op = "set_data", !.inst = i,
                                        !.snapshots = inst.snapshots, !.key = "name",
                                        !.value = value]
            /\ UNCHANGED <<instances, storeVars, runnerVars, casVars>>

\* i.get_data('name', default)
GetData ==
    \E i \in Instances :
        LET inst == instances[i]
        IN  \E r \in {get_data(Now, data_store(i, inst), inst.snapshots, "name")} :
            /\ inst # NoInstance
            /\ Becomes(r.w)
            /\ ormOp' = [NoOrmOp EXCEPT !.op = "get_data", !.inst = i,
                                        !.snapshots = inst.snapshots, !.key = "name",
                                        !.ret = r.ret]
            /\ UNCHANGED <<instances, storeVars, runnerVars, casVars>>

(***************************************************************************)
(* Relationships (specification SpecRel)                                   *)
(***************************************************************************)
\* cls._file_model: the model whose file schema reads the document
_file_model(m) == IF m = "Field" THEN "Schema" ELSE m

\* HasManyDescriptor.new_collection: the collection could not be read from the owner's
\* document, so the related model is loaded; the items of a result that is a collection
\* of the related model are taken
new_collection(w, e, attrname) ==
    Bind(load(w, FieldDecl(ModelOf(e), attrname).model, e, FALSE),
         LAMBDA l :
             [w |-> l.w,
              items |-> IF /\ ~l.result.isNone
                           /\ _file_model(FieldDecl(ModelOf(e), attrname).model)
                                  = FieldDecl(ModelOf(e), attrname).model
                        THEN l.result.items ELSE <<>>])

\* ListDescriptor.__get__: the stored collection, or a new collection, which is kept
\* in the committed generation it was made for
ListDescriptor_get(w, e, snapshots, attrname) ==
    LET related_name == FieldDecl(ModelOf(e), attrname).related_name
    IN  Bind(get_data(w, e, snapshots, attrname),
             LAMBDA g :
                 IF g.ret # Absent THEN g
                 ELSE Bind(new_collection(g.w, e, attrname),
                           LAMBDA c :
                               [w |-> [c.w EXCEPT !.data =
                                         [k \in DOMAIN @ |->
                                            IF k = e
                                            THEN ModelSnapshots_set(@[k], attrname,
                                                     Coll(c.items), "committed")
                                            ELSE IF \E i \in 1..Len(c.items) :
                                                        c.items[i] = k
                                            THEN ModelSnapshots_set(@[k], related_name,
                                                     Inst(e), "committed")
                                            ELSE @[k]]],
                                ret |-> Coll(c.items)]))

\* the members of a collection value
Members(v) == {v.items[i] : i \in 1..Len(v.items)}

\* a sequence without the entries equal to x
RECURSIVE Without(_, _)
Without(items, x) ==
    IF items = <<>> THEN <<>>
    ELSE IF Head(items) = x THEN Without(Tail(items), x)
    ELSE <<Head(items)>> \o Without(Tail(items), x)

\* ModelCollection.add through a handle with the given snapshots: the changed
\* collection is written to the first generation of the order
collection_add(w, e, snapshots, attrname, x) ==
    Bind(ListDescriptor_get(w, e, snapshots, attrname),
         LAMBDA c :
             set_data(c.w, e, snapshots, attrname,
                      Coll(IF x \in Members(c.ret) THEN c.ret.items
                           ELSE Append(c.ret.items, x))))

\* ModelCollection.discard
collection_discard(w, e, snapshots, attrname, x) ==
    Bind(ListDescriptor_get(w, e, snapshots, attrname),
         LAMBDA c :
             IF x \in Members(c.ret)
             THEN set_data(c.w, e, snapshots, attrname, Coll(Without(c.ret.items, x)))
             ELSE c.w)

\* a _validate that accepts every value
_validate_Any(model, value) == TRUE

\* BaseRelationshipDescriptor._validate with utils.validate_type: None or an instance
\* of the related model, else ValidationError
_validate(model, value) ==
    value = NoneV \/ (value.k = "inst" /\ ModelOf(value.e) = model)

\* a validation that fails after the field was assigned
raise_ValidationError_AfterSet(w, e, snapshots, attrname, value) ==
    [w |-> set_data(w, e, snapshots, attrname, value), err |-> "ValidationError"]

\* __set__ line 53: _validate raises before the instance or a target was read or
\* written
raise_ValidationError(w, e, snapshots, attrname, value) ==
    [w |-> w, err |-> "ValidationError"]

\* BelongsToDescriptor.__set__(instance, value) for the instance of data_key e read
\* with the given snapshots
RECURSIVE BelongsTo_set(_, _, _, _, _)
BelongsTo_set(w, e, snapshots, attrname, value) ==
    LET decl == FieldDecl(ModelOf(e), attrname)
        related_name == decl.related_name
        many == FieldDecl(decl.model, related_name).kind = "HasMany"
        current_value(g) == IF g.ret = Absent THEN NoneV ELSE g.ret
        detach(w1, current) ==
            IF ~Truthy(current) THEN w1
            ELSE IF many
            THEN collection_discard(w1, current.e, snapshots, related_name, e)
            ELSE BelongsTo_set(w1, current.e, snapshots, related_name, NoneV).w
        attach(w2) ==
            IF ~Truthy(value) THEN w2
            ELSE IF many
            THEN collection_add(w2, value.e, snapshots, related_name, e)
            ELSE BelongsTo_set(w2, value.e, snapshots, related_name, Inst(e)).w
    IN  IF ~_validate(decl.model, value)
        THEN raise_ValidationError(w, e, snapshots, attrname, value)
        ELSE Bind(get_data(w, e, snapshots, attrname),
                  LAMBDA g :
                      IF value = current_value(g) THEN [w |-> g.w, err |-> "ok"]
                      ELSE Bind(detach(set_data(g.w, e, snapshots, attrname, value),
                                       current_value(g)),
                                LAMBDA w2 : [w |-> attach(w2), err |-> "ok"]))

\* the belongs-to fields SpecRel assigns, by model
BelongsToField ==
    [Field |-> "schema", OneToOneModel1 |-> "m2", OneToOneModel2 |-> "m1"]
\* the entities SpecRel assigns to and the entities it has constructed
RelEnts == {"f1", "a1", "a2", "b1", "b2"}
RelConstructed == RelEnts \cup {"s1", "s2", "P"}
\* the values assigned: None, the instances of the related model, an instance of
\* another model and a value that is no model instance
RelValues(e) ==
    LET decl == FieldDecl(ModelOf(e), BelongsToField[ModelOf(e)])
    IN  {NoneV, Other, Inst("P")} \cup {Inst(x) : x \in Keys[decl.model]}

\* instance.attrname = value through a handle with the default snapshots
AssignBelongsTo ==
    \E e \in RelEnts :
        \E value \in RelValues(e) :
            LET attrname == BelongsToField[ModelOf(e)]
            IN  \E r \in {BelongsTo_set(Now, e, default_snapshots, attrname, value)} :
                /\ Becomes(r.w)
                /\ ormOp' = [NoOrmOp EXCEPT !.op = "__set__", !.ent = e,
                                            !.key = attrname, !.value = value,
                                            !.err = r.err]
                /\ UNCHANGED <<instances, storeVars, runnerVars, casVars>>

(***************************************************************************)
(* Model.save (specification SpecSave)                                     *)
(***************************************************************************)
\* ModelSnapshots.dirty_fields(generation, order): the fields of the generation whose
\* value is not the first value the order holds
dirty_fields(st, generation, order) ==
    {f \in FieldNames :
        /\ st[generation][f] # Absent
        /\ st[generation][f] # ModelSnapshots_get(st, f, order)}

\* ModelSnapshots.update_snapshot(target, order, fields)
update_snapshot(st, target, order, fields) ==
    [st EXCEPT ![target] =
        [f \in FieldNames |->
            IF f \in fields /\ ModelSnapshots_get(st, f, order) # Absent
            THEN ModelSnapshots_get(st, f, order) ELSE @[f]]]

\* ModelSnapshots.clear_snapshot(generation, fields)
clear_snapshot(st, generation, fields) ==
    [st EXCEPT ![generation] = [f \in FieldNames |-> IF f \in fields THEN Absent ELSE @[f]]]

\* iterkeys(store[generation])
KeysIn(st, generation) == {f \in FieldNames : st[generation][f] # Absent}

\* the relationship fields of a model in the order _fields yields them
RelationshipFields(m) ==
    CASE m = "Project" -> <<"spiders", "schemas">>
      [] m = "Schema" -> <<"project", "fields">>
      [] m = "Field" -> <<"schema">>
      [] m = "OneToOneModel1" -> <<"m2">>
      [] m = "OneToOneModel2" -> <<"m1">>
      [] m = "Spider" -> <<"project", "samples">>
      [] m = "Sample" -> <<"spider">>
      [] m = "ParentModel" -> <<"children">>
      [] m = "ChildModel" -> <<"parent">>
      [] m = "ManyFileModel" -> <<"owner">>

\* the (related, related_name) pairs one relationship value yields; None is yielded as
\* a related model too
ReferencesOf(value, related_name) ==
    CASE value.k = "coll" ->
             [i \in 1..Len(value.items) |->
                 [model |-> value.items[i], field |-> related_name]]
      [] value.k = "inst" -> <<[model |-> value.e, field |-> related_name]>>
      [] value.k = "None" -> <<[model |-> "None", field |-> related_name]>>
      [] OTHER -> <<>>

\* Model._staged_model_references
RECURSIVE _staged_model_references_of(_, _, _)
_staged_model_references_of(d, e, names) ==
    IF names = <<>> THEN <<>>
    ELSE ReferencesOf(ModelSnapshots_get(d[e], Head(names), <<"staged", "committed">>),
                      FieldDecl(ModelOf(e), Head(names)).related_name)
         \o _staged_model_references_of(d, e, Tail(names))
_staged_model_references(d, e) ==
    _staged_model_references_of(d, e, RelationshipFields(ModelOf(e)))

\* the loop of _stage_changes over the references: dirty is the set staged for the
\* saved model
RECURSIVE stage_related(_, _, _)
stage_related(d, references, dirty) ==
    IF references = <<>> THEN [d |-> d, err |-> "ok"]
    ELSE IF Head(references).model = "None" THEN [d |-> d, err |-> "AttributeError"]
    ELSE LET model == Head(references).model
             field == Head(references).field
             only == FieldDecl(ModelOf(model), field).only
             related_dirty == IF only = "" THEN dirty ELSE dirty \cap {only}
         IN  IF \/ related_dirty # {}
                \/ field \in dirty_fields(d[model], "working", <<"committed">>)
             THEN Bind([d EXCEPT ![model] = update_snapshot(@, "staged",
                                                <<"working", "committed">>, {field})],
                       LAMBDA d1 : stage_related(d1, Tail(references), dirty))
             ELSE stage_related(d, Tail(references), dirty)

\* the value of the only argument that selects every field
AllFields == FieldNames

\* a staging that takes every working field of the selection, dirty or not
_stage_changes_EveryWorkingField(d, e, only) ==
    LET dirty == KeysIn(d[e], "working") \cap only
    IN  Bind(IF dirty # {}
             THEN [d EXCEPT ![e] = update_snapshot(@, "staged", <<"working">>, dirty)]
             ELSE d,
             LAMBDA d1 :
                 Bind(_staged_model_references(d1, e),
                      LAMBDA references : stage_related(d1, references, dirty)))

\* a staging that ignores the only argument
_stage_changes_IgnoreOnly(d, e, only) ==
    LET dirty == dirty_fields(d[e], "working", <<"committed">>)
    IN  Bind(IF dirty # {}
             THEN [d EXCEPT ![e] = update_snapshot(@, "staged", <<"working">>, dirty)]
             ELSE d,
             LAMBDA d1 :
                 Bind(_staged_model_references(d1, e),
                      LAMBDA references : stage_related(d1, references, dirty)))

\* Model._stage_changes(only)
_stage_changes(d, e, only) ==
    LET dirty == dirty_fields(d[e], "working", <<"committed">>) \cap only
    IN  Bind(IF dirty # {}
             THEN [d EXCEPT ![e] = update_snapshot(@, "staged", <<"working">>, dirty)]
             ELSE d,
             LAMBDA d1 :
                 Bind(_staged_model_references(d1, e),
                      LAMBDA references : stage_related(d1, references, dirty)))

\* the string a dumped plain field holds
NameOf(v) == IF v.k = "str" THEN v.s ELSE ""

\* the dump of the members of a Field collection under the snapshots; wrap_envelopes
\* fails with KeyError for a body without its primary key
RECURSIVE dump_fields(_, _, _)
dump_fields(d, items, snapshots) ==
    IF items = <<>> THEN [err |-> "ok", bodies |-> <<>>]
    ELSE LET pk == ModelSnapshots_get(d[Head(items)], "id", snapshots)
         IN  Bind(dump_fields(d, Tail(items), snapshots),
                  LAMBDA rest :
                      IF pk = Absent \/ rest.err # "ok"
                      THEN [err |-> "KeyError", bodies |-> <<>>]
                      ELSE [err |-> "ok",
                            bodies |->
                                <<FieldBody(pk.s,
                                      NameOf(ModelSnapshots_get(d[Head(items)], "name",
                                                                snapshots)))>>
                                \o rest.bodies])

\* the members of the collection a has-many field holds under the snapshots
ItemsOf(st, attrname, snapshots) ==
    IF ModelSnapshots_get(st, attrname, snapshots).k = "coll"
    THEN ModelSnapshots_get(st, attrname, snapshots).items ELSE <<>>

\* the dump of the members of a Schema collection under the snapshots
RECURSIVE dump_schemas(_, _, _)
dump_schemas(d, items, snapshots) ==
    IF items = <<>> THEN [err |-> "ok", bodies |-> <<>>]
    ELSE LET st == d[Head(items)]
             pk == ModelSnapshots_get(st, "id", snapshots)
         IN  Bind(dump_fields(d, ItemsOf(st, "fields", snapshots), snapshots),
                  LAMBDA fs :
                  Bind(dump_schemas(d, Tail(items), snapshots),
                       LAMBDA rest :
                           IF pk = Absent \/ fs.err # "ok" \/ rest.err # "ok"
                           THEN [err |-> "KeyError", bodies |-> <<>>]
                           ELSE [err |-> "ok",
                                 bodies |->
                                     <<SchemaBody(pk.s,
                                           NameOf(ModelSnapshots_get(st, "name",
                                                                     snapshots)),
                                           fs.bodies)>>
                                     \o rest.bodies]))

\* the string of the id a relationship with only='id' is dumped as
IdOf(d, v, snapshots) ==
    IF v.k = "inst" THEN NameOf(ModelSnapshots_get(d[v.e], "id", snapshots)) ELSE ""

\* the dump of the members of a ChildModel collection under the snapshots
dump_children(d, items, snapshots) ==
    [i \in 1..Len(items) |->
        ChildBody(NameOf(ModelSnapshots_get(d[items[i]], "id", snapshots)),
                  IdOf(d, ModelSnapshots_get(d[items[i]], "parent", snapshots),
                       snapshots))]

\* the result of a step of save: the state, the error raised and the document dumped
Done(w) == [w |-> w, err |-> "ok", doc |-> Missing]
Raises(w, err) == [w |-> w, err |-> err, doc |-> Missing]

\* lines 334-346: the walk from a model with an owner to its top-most owner, whose
\* collection is dumped with state='staged'
RECURSIVE owner_dump(_, _)
owner_dump(w, child) ==
    LET m == ModelOf(child)
        parent_field == opts(m).owner
        sc == <<"staged", "committed">>
    IN  Bind(get_data(w, child, sc, parent_field),
             LAMBDA g :
                 IF g.ret.k # "inst" THEN Raises(g.w, "AttributeError")
                 ELSE Bind(ListDescriptor_get(g.w, g.ret.e, sc,
                                              FieldDecl(m, parent_field).related_name),
                           LAMBDA c :
                               IF opts(ModelOf(g.ret.e)).owner # ""
                               THEN owner_dump(c.w, g.ret.e)
                               ELSE IF ModelOf(g.ret.e) = "ParentModel"
                               THEN [w |-> c.w, err |-> "ok",
                                     doc |-> ChildrenDoc(
                                                 dump_children(c.w.data, c.ret.items, sc))]
                               ELSE Bind(dump_schemas(c.w.data, c.ret.items, sc),
                                         LAMBDA dumped :
                                             IF dumped.err # "ok"
                                             THEN Raises(c.w, dumped.err)
                                             ELSE [w |-> c.w, err |-> "ok",
                                                   doc |-> SchemasDoc(dumped.bodies)])))

\* model.dumps(state='staged') of a model without an owner: the file fields are read
\* through a handle with ('staged', 'committed'), which loads the document of a model
\* that lacks one of them
model_dump(w, e) ==
    LET sc == <<"staged", "committed">>
        id(w1) == NameOf(ModelSnapshots_get(w1.data[e], "id", sc))
    IN  CASE ModelOf(e) = "Spider" ->
                 Bind(ListDescriptor_get(w, e, sc, "samples"),
                      LAMBDA c :
                          [w |-> c.w, err |-> "ok",
                           doc |-> SpiderDoc(id(c.w),
                                       [i \in 1..Len(c.ret.items) |->
                                           IdOf(c.w.data, Inst(c.ret.items[i]), sc)])])
          [] ModelOf(e) = "Sample" ->
                 Bind(get_data(w, e, sc, "name"),
                      LAMBDA g :
                          [w |-> g.w, err |-> "ok",
                           doc |-> SampleDoc(id(g.w), NameOf(g.ret),
                                       IdOf(g.w.data,
                                            ModelSnapshots_get(g.w.data[e], "spider", sc),
                                            sc))])
          [] ModelOf(e) = "ParentModel" ->
                 Bind(ListDescriptor_get(w, e, sc, "children"),
                      LAMBDA c :
                          [w |-> c.w, err |-> "ok",
                           doc |-> ParentDoc(id(c.w),
                                       dump_children(c.w.data, c.ret.items, sc))])
          [] OTHER ->
                 [w |-> w, err |-> "ok",
                  doc |-> ProjectDoc(NameOf(ModelSnapshots_get(w.data[e], "name", sc)))]

\* a commit that saves a path again for every model that resolves to it
AlreadySaved_Never(path, saved_paths) == FALSE

\* line 332: path in saved_paths
AlreadySaved(path, saved_paths) == path \in saved_paths

\* a commit that deletes the old path of every model it writes, moved or not
RECURSIVE commit_models_DeleteUnmoved(_, _, _, _)
commit_models_DeleteUnmoved(w, models, saved_paths, deleted_paths) ==
    IF models = <<>> THEN Done(w)
    ELSE
    LET model == Head(models)
        m == ModelOf(model)
        st == w.data[model]
        dirty == _file_fields(m) \cap KeysIn(st, "staged")
        path == storage_path(m, w.data, model, TRUE, <<"staged", "committed">>)
        old_path == storage_path(m, w.data, model, TRUE, <<"committed", "staged">>)
        deletes == path \notin deleted_paths
        delete(w2) ==
            IF deletes
            THEN [w2 EXCEPT !.files[old_path] = Missing,
                            !.calls = Append(@, Call("delete", old_path))]
            ELSE w2
        continue(w3) ==
            commit_models_DeleteUnmoved(w3, Tail(models), saved_paths \cup {path},
                          IF deletes THEN deleted_paths \cup {old_path}
                          ELSE deleted_paths)
    IN  IF path = "" \/ old_path = "" THEN Raises(w, "PathResolutionError")
        ELSE IF ~(dirty # {} \/ old_path # path)
        THEN commit_models_DeleteUnmoved(w, Tail(models), saved_paths, deleted_paths)
        ELSE IF AlreadySaved(path, saved_paths) THEN Bind(delete(w), LAMBDA w3 : continue(w3))
        ELSE Bind(IF opts(m).owner # "" THEN owner_dump(w, model)
                  ELSE model_dump(w, model),
                  LAMBDA r :
                      IF r.err # "ok" THEN Raises(r.w, r.err)
                      ELSE Bind(delete([r.w EXCEPT
                                           !.files[path] = r.doc,
                                           !.calls = Append(@, Call("save", path))]),
                                LAMBDA w3 : continue(w3)))

\* the first loop of _commit_changes over the saved model and its references; a path
\* that cannot be resolved ends the save with PathResolutionError
RECURSIVE commit_models(_, _, _, _)
commit_models(w, models, saved_paths, deleted_paths) ==
    IF models = <<>> THEN Done(w)
    ELSE
    LET model == Head(models)
        m == ModelOf(model)
        st == w.data[model]
        dirty == _file_fields(m) \cap KeysIn(st, "staged")
        path == storage_path(m, w.data, model, TRUE, <<"staged", "committed">>)
        old_path == storage_path(m, w.data, model, TRUE, <<"committed", "staged">>)
        deletes == old_path # path /\ path \notin deleted_paths
        delete(w2) ==
            IF deletes
            THEN [w2 EXCEPT !.files[old_path] = Missing,
                            !.calls = Append(@, Call("delete", old_path))]
            ELSE w2
        continue(w3) ==
            commit_models(w3, Tail(models), saved_paths \cup {path},
                          IF deletes THEN deleted_paths \cup {old_path}
                          ELSE deleted_paths)
    IN  IF path = "" \/ old_path = "" THEN Raises(w, "PathResolutionError")
        ELSE IF ~(dirty # {} \/ old_path # path)
        THEN commit_models(w, Tail(models), saved_paths, deleted_paths)
        ELSE IF AlreadySaved(path, saved_paths) THEN Bind(delete(w), LAMBDA w3 : continue(w3))
        ELSE Bind(IF opts(m).owner # "" THEN owner_dump(w, model)
                  ELSE model_dump(w, model),
                  LAMBDA r :
                      IF r.err # "ok" THEN Raises(r.w, r.err)
                      ELSE Bind(delete([r.w EXCEPT
                                           !.files[path] = r.doc,
                                           !.calls = Append(@, Call("save", path))]),
                                LAMBDA w3 : continue(w3)))

\* a fold that leaves the folded fields in the working generation
RECURSIVE fold_models_KeepWorking(_, _)
fold_models_KeepWorking(d, models) ==
    IF models = <<>> THEN d
    ELSE LET st == d[Head(models)]
             dirty == KeysIn(st, "staged")
             folded == clear_snapshot(
                           update_snapshot(st, "committed", <<"staged">>, dirty),
                           "staged", FieldNames)
         IN  Bind(IF dirty # {} THEN [d EXCEPT ![Head(models)] = folded] ELSE d,
                  LAMBDA d1 : fold_models_KeepWorking(d1, Tail(models)))

\* the second loop of _commit_changes: staged is folded into committed
RECURSIVE fold_models(_, _)
fold_models(d, models) ==
    IF models = <<>> THEN d
    ELSE LET st == d[Head(models)]
             dirty == KeysIn(st, "staged")
             folded == clear_snapshot(
                           clear_snapshot(
                               update_snapshot(st, "committed", <<"staged">>, dirty),
                               "staged", FieldNames),
                           "working", dirty \cap KeysIn(st, "working"))
         IN  Bind(IF dirty # {} THEN [d EXCEPT ![Head(models)] = folded] ELSE d,
                  LAMBDA d1 : fold_models(d1, Tail(models)))

\* the models _commit_changes goes over: the saved model, then its references
CommitChain(d, e) ==
    Bind(_staged_model_references(d, e),
         LAMBDA references :
             <<e>> \o [i \in 1..Len(references) |-> references[i].model])

\* Model._commit_changes
_commit_changes(w, e) ==
    Bind(CommitChain(w.data, e),
         LAMBDA models :
             Bind(commit_models(w, models, {}, {}),
                  LAMBDA r :
                      IF r.err # "ok" THEN r
                      ELSE Done([r.w EXCEPT !.data = fold_models(@, models)])))

\* Model.save(only)
save(w, e, only) ==
    Bind(resolve_attributes(w, e, _file_fields(ModelOf(e)), <<"committed">>),
         LAMBDA w1 :
             Bind(_stage_changes(w1.data, e, only),
                  LAMBDA staged :
                      IF staged.err # "ok"
                      THEN Raises([w1 EXCEPT !.data = staged.d], staged.err)
                      ELSE _commit_changes([w1 EXCEPT !.data = staged.d], e)))

\* the self-owned models SpecWalk assigns owners to
OwnedEnts == Keys.ManyFileModel

\* instance.owner = value for a ManyFileModel, through a handle with the default
\* snapshots
AssignOwner ==
    \E e \in OwnedEnts, value \in {NoneV} \cup {Inst(x) : x \in OwnedEnts} :
        \E r \in {BelongsTo_set(Now, e, default_snapshots, "owner", value)} :
            /\ Becomes(r.w)
            /\ ormOp' = [NoOrmOp EXCEPT !.op = "__set__", !.ent = e, !.key = "owner",
                                        !.value = value, !.err = r.err]
            /\ UNCHANGED <<instances, storeVars, runnerVars, casVars>>

\* the entities whose walk to the top-most owner SpecWalk follows
WalkEnts == {"f1", "s1", "m1", "m2"}

\* instance.save() of a model with an owner and a dirty file field, with the loop of
\* lines 336-345 taken one iteration at a time: ormOp.op = "walk" while the loop runs,
\* with ormOp.ent the child and ormOp.inst the saved model. The first step loads and
\* stages as save does and enters the loop; each later step takes the parent from the
\* child and the collection from the parent and goes on with the parent as the child.
\* The loop ends with AttributeError for a parent of None, or at a child without an
\* owner, where the rest of _commit_changes runs.
OwnerWalk ==
    IF ormOp.op # "walk"
    THEN \E e \in WalkEnts :
             /\ data[e] # EmptyStore
             /\ opts(ModelOf(e)).owner # ""
             /\ \E w1 \in {resolve_attributes(Now, e, _file_fields(ModelOf(e)),
                                               <<"committed">>)} :
                \E staged \in {_stage_changes(w1.data, e, AllFields)} :
                    /\ staged.err = "ok"
                    /\ _file_fields(ModelOf(e)) \cap KeysIn(staged.d[e], "staged") # {}
                    /\ Becomes([w1 EXCEPT !.data = staged.d])
                    /\ ormOp' = [NoOrmOp EXCEPT !.op = "walk", !.ent = e, !.inst = e]
                    /\ UNCHANGED <<instances, storeVars, runnerVars, casVars>>
    ELSE LET child == ormOp.ent
             m == ModelOf(child)
             parent_field == opts(m).owner
             related_name == FieldDecl(m, parent_field).related_name
             sc == <<"staged", "committed">>
         IN  \E g \in {get_data(Now, child, sc, parent_field)} :
                 IF g.ret.k # "inst"
                 THEN /\ Becomes(g.w)
                      /\ ormOp' = [ormOp EXCEPT !.op = "walked",
                                                !.err = "AttributeError"]
                      /\ UNCHANGED <<instances, storeVars, runnerVars, casVars>>
                 ELSE IF opts(ModelOf(g.ret.e)).owner # ""
                 THEN \E c \in {IF FieldDecl(ModelOf(g.ret.e), related_name).kind
                                       = "HasMany"
                                 THEN ListDescriptor_get(g.w, g.ret.e, sc, related_name)
                                 ELSE get_data(g.w, g.ret.e, sc, related_name)} :
                          /\ Becomes(c.w)
                          /\ ormOp' = [ormOp EXCEPT !.ent = g.ret.e, !.ret = c.ret]
                          /\ UNCHANGED <<instances, storeVars, runnerVars, casVars>>
                 ELSE \E r \in {_commit_changes(Now, ormOp.inst)} :
                          /\ Becomes(r.w)
                          /\ ormOp' = [ormOp EXCEPT !.op = "walked", !.ent = g.ret.e,
                                                    !.err = r.err]
                          /\ UNCHANGED <<instances, storeVars, runnerVars, casVars>>

\* the entities SpecSave reads and writes, and the field it creates
SaveEnts == {"P", "s1", "f1"}
NewEnt == "f2"
\* the instances SpecSave starts with: Project(storage, name='P'),
\* Schema(storage, id='s1') and Field(storage, id='f1')
Constructed(ents) ==
    [k \in StoreKeys |->
        IF k \in ents
        THEN ModelSnapshots_set(EmptyStore, _pk_field(ModelOf(k)), Str(k), "working")
        ELSE EmptyStore]

\* getattr(instance, 'name') through a handle with the default snapshots
ReadField ==
    \E e \in SaveEnts \cup {NewEnt} :
        \E r \in {get_data(Now, e, default_snapshots, "name")} :
            /\ Becomes(r.w)
            /\ ormOp' = [NoOrmOp EXCEPT !.op = "get_data", !.ent = e, !.key = "name",
                                        !.ret = r.ret, !.err = r.w.err]
            /\ UNCHANGED <<instances, storeVars, runnerVars, casVars>>

\* instance.name = value
WriteField ==
    \E e \in {"s1", "f1"}, value \in DataValues :
        /\ Becomes(set_data(Now, e, default_snapshots, "name", value))
        /\ ormOp' = [NoOrmOp EXCEPT !.op = "set_data", !.ent = e, !.key = "name",
                                    !.value = value]
        /\ UNCHANGED <<instances, storeVars, runnerVars, casVars>>

\* project.schemas and schema.fields
AccessHasMany ==
    \E e \in {"P", "s1"} :
        LET attrname == IF e = "P" THEN "schemas" ELSE "fields"
        IN  \E r \in {ListDescriptor_get(Now, e, default_snapshots, attrname)} :
            /\ Becomes(r.w)
            /\ ormOp' = [NoOrmOp EXCEPT !.op = "__get__", !.ent = e, !.key = attrname,
                                        !.ret = r.ret]
            /\ UNCHANGED <<instances, storeVars, runnerVars, casVars>>

\* Field(storage, id='f2', name=value, schema=Schema(storage, id='s1')): the fields are
\* set first, then the relationship
NewField ==
    \E value \in DataValues :
        \E w2 \in {set_data(set_data(Now, NewEnt, default_snapshots, "id",
                                      Str(NewEnt)),
                             NewEnt, default_snapshots, "name", value)} :
        \E r \in {BelongsTo_set(w2, NewEnt, default_snapshots, "schema", Inst("s1"))} :
            /\ data[NewEnt] = EmptyStore
            /\ Becomes(r.w)
            /\ ormOp' = [NoOrmOp EXCEPT !.op = "__init__", !.ent = NewEnt,
                                        !.value = value, !.err = r.err]
            /\ UNCHANGED <<instances, storeVars, runnerVars, casVars>>

\* the entities SpecMove renames, and those it saves: a spider and its samples, a
\* parent and its children
RenameEnts == {"sp1", "p1"}
MoveEnts == {"sp1", "x1", "p1", "c1"}

\* a first loop that folds the model at hand when its Storage call raises
RECURSIVE commit_models_failing_Folding(_, _, _, _, _)
commit_models_failing_Folding(w, models, saved_paths, deleted_paths, k) ==
    IF models = <<>> THEN Done(w)
    ELSE
    LET model == Head(models)
        m == ModelOf(model)
        st == w.data[model]
        dirty == _file_fields(m) \cap KeysIn(st, "staged")
        path == storage_path(m, w.data, model, TRUE, <<"staged", "committed">>)
        old_path == storage_path(m, w.data, model, TRUE, <<"committed", "staged">>)
        deletes == old_path # path /\ path \notin deleted_paths
        delete(w2, n) ==
            IF ~deletes
            THEN commit_models_failing_Folding(w2, Tail(models), saved_paths \cup {path}, deleted_paths, n)
            ELSE IF n = 0 THEN Raises([w2 EXCEPT !.data = fold_models(@, <<model>>)], "IOError")
            ELSE commit_models_failing_Folding([w2 EXCEPT !.files[old_path] = Missing,
                                  !.calls = Append(@, Call("delete", old_path))],
                       Tail(models), saved_paths \cup {path},
                       deleted_paths \cup {old_path}, n - 1)
    IN  IF path = "" \/ old_path = "" THEN Raises(w, "PathResolutionError")
        ELSE IF ~(dirty # {} \/ old_path # path)
        THEN commit_models_failing_Folding(w, Tail(models), saved_paths, deleted_paths, k)
        ELSE IF AlreadySaved(path, saved_paths) THEN delete(w, k)
        ELSE Bind(IF opts(m).owner # "" THEN owner_dump(w, model)
                  ELSE model_dump(w, model),
                  LAMBDA r :
                      IF r.err # "ok" THEN Raises(r.w, r.err)
                      ELSE IF k = 0 THEN Raises([r.w EXCEPT !.data = fold_models(@, <<model>>)], "IOError")
                      ELSE delete([r.w EXCEPT
                                      !.files[path] = r.doc,
                                      !.calls = Append(@, Call("save", path))],
                                  k - 1))

\* the first loop of _commit_changes with a storage whose Storage.save and
\* Storage.delete calls succeed k times and then raise IOError (k < 0: no call
\* raises); the call that raises changes no document and ends the loop
RECURSIVE commit_models_failing(_, _, _, _, _)
commit_models_failing(w, models, saved_paths, deleted_paths, k) ==
    IF models = <<>> THEN Done(w)
    ELSE
    LET model == Head(models)
        m == ModelOf(model)
        st == w.data[model]
        dirty == _file_fields(m) \cap KeysIn(st, "staged")
        path == storage_path(m, w.data, model, TRUE, <<"staged", "committed">>)
        old_path == storage_path(m, w.data, model, TRUE, <<"committed", "staged">>)
        deletes == old_path # path /\ path \notin deleted_paths
        delete(w2, n) ==
            IF ~deletes
            THEN commit_models_failing(w2, Tail(models), saved_paths \cup {path}, deleted_paths, n)
            ELSE IF n = 0 THEN Raises(w2, "IOError")
            ELSE commit_models_failing([w2 EXCEPT !.files[old_path] = Missing,
                                  !.calls = Append(@, Call("delete", old_path))],
                       Tail(models), saved_paths \cup {path},
                       deleted_paths \cup {old_path}, n - 1)
    IN  IF path = "" \/ old_path = "" THEN Raises(w, "PathResolutionError")
        ELSE IF ~(dirty # {} \/ old_path # path)
        THEN commit_models_failing(w, Tail(models), saved_paths, deleted_paths, k)
        ELSE IF AlreadySaved(path, saved_paths) THEN delete(w, k)
        ELSE Bind(IF opts(m).owner # "" THEN owner_dump(w, model)
                  ELSE model_dump(w, model),
                  LAMBDA r :
                      IF r.err # "ok" THEN Raises(r.w, r.err)
                      ELSE IF k = 0 THEN Raises(r.w, "IOError")
                      ELSE delete([r.w EXCEPT
                                      !.files[path] = r.doc,
                                      !.calls = Append(@, Call("save", path))],
                                  k - 1))

\* Model._commit_changes on that storage: the exception leaves before the second loop
_commit_changes_failing(w, e, k) ==
    Bind(CommitChain(w.data, e),
         LAMBDA models :
             Bind(commit_models_failing(w, models, {}, {}, k),
                  LAMBDA r :
                      IF r.err # "ok" THEN r
                      ELSE Done([r.w EXCEPT !.data = fold_models(@, models)])))

\* Model.save(only) on that storage
save_failing(w, e, only, k) ==
    Bind(resolve_attributes(w, e, _file_fields(ModelOf(e)), <<"committed">>),
         LAMBDA w1 :
             Bind(_stage_changes(w1.data, e, only),
                  LAMBDA staged :
                      IF staged.err # "ok"
                      THEN Raises([w1 EXCEPT !.data = staged.d], staged.err)
                      ELSE _commit_changes_failing([w1 EXCEPT !.data = staged.d], e, k)))

\* the write call of a save() that raises: the first, the second or the third
Faults == {0, 1, 2}

\* save() against a storage that raises IOError in one of its write calls
SaveFailing ==
    \E e \in SaveEnts \cup {NewEnt} \cup MoveEnts, k \in Faults :
        /\ data[e] # EmptyStore
        /\ \E r \in {save_failing(Now, e, AllFields, k)} :
            /\ r.err = "IOError"
            /\ Becomes(r.w)
            /\ ormOp' = [NoOrmOp EXCEPT !.op = "save", !.ent = e, !.err = r.err,
                                        !.only = AllFields]
            /\ UNCHANGED <<instances, storeVars, runnerVars, casVars>>

\* instance.save()
Save ==
    \E e \in SaveEnts \cup {NewEnt} \cup MoveEnts :
        /\ data[e] # EmptyStore
        /\ \E r \in {save(Now, e, AllFields)} :
            /\ Becomes(r.w)
            /\ ormOp' = [NoOrmOp EXCEPT !.op = "save", !.ent = e, !.err = r.err,
                                        !.only = AllFields]
            /\ UNCHANGED <<instances, storeVars, runnerVars, casVars>>

\* instance.id = id
Rename ==
    \E e \in RenameEnts : \E id \in Keys[ModelOf(e)] :
        /\ data[e] # EmptyStore
        /\ Becomes(set_data(Now, e, default_snapshots, "id", Str(id)))
        /\ ormOp' = [NoOrmOp EXCEPT !.op = "set_data", !.ent = e, !.key = "id",
                                    !.value = Str(id)]
        /\ UNCHANGED <<instances, storeVars, runnerVars, casVars>>

\* the values of the only argument SpecFold passes
Onlys == {{"name"}, {"id"}}

\* instance.save(only=only)
SaveOnly ==
    \E e \in SaveEnts \cup {NewEnt}, only \in Onlys :
        \E r \in {save(Now, e, only)} :
            /\ data[e] # EmptyStore
            /\ Becomes(r.w)
            /\ ormOp' = [NoOrmOp EXCEPT !.op = "save", !.ent = e, !.err = r.err,
                                        !.only = only]
            /\ UNCHANGED <<instances, storeVars, runnerVars, casVars>>

\* instance._stage_changes(only)
Stage ==
    \E e \in SaveEnts, only \in Onlys \cup {AllFields} :
        \E r \in {_stage_changes(data, e, only)} :
            /\ Becomes([Now EXCEPT !.data = r.d])
            /\ ormOp' = [NoOrmOp EXCEPT !.op = "_stage_changes", !.ent = e,
                                        !.err = r.err, !.only = only]
            /\ UNCHANGED <<instances, storeVars, runnerVars, casVars>>

\* no instance was made
NoData == [k \in StoreKeys |-> EmptyStore]

\* Schema.file_schema(strict=True, context={'storage': storage}).load(file_data,
\* many=True) for the document at items.json
FileSchemaLoad ==
    \E r \in {file_schema_load(data, files["items.json"])} :
        /\ ormOp.op = "none"
        /\ Becomes([Now EXCEPT !.data = r.data])
        /\ ormOp' = [NoOrmOp EXCEPT !.op = "load", !.value = files["items.json"],
                                    !.ret = Coll(r.result), !.err = r.err]
        /\ UNCHANGED <<instances, storeVars, runnerVars, casVars>>

\* collection.dumps() of the loaded collection, written to items.json
DumpCollection ==
    /\ ormOp.op = "load" /\ ormOp.err = "ok"
    /\ \E dumped \in {dump_schemas(data, ormOp.ret.items, default_snapshots)} :
        /\ Becomes(IF dumped.err # "ok" THEN Now
                   ELSE [Now EXCEPT !.files["items.json"] = SchemasDoc(dumped.bodies),
                                    !.calls = <<Call("save", "items.json")>>])
        /\ ormOp' = [NoOrmOp EXCEPT !.op = "dump", !.ret = ormOp.ret,
                                    !.err = dumped.err]
        /\ UNCHANGED <<instances, storeVars, runnerVars, casVars>>

\* the dumped document is loaded where no instance exists; value keeps the
\* collection that was dumped
Reload ==
    /\ ormOp.op = "dump" /\ ormOp.err = "ok"
    /\ \E r \in {file_schema_load(NoData, files["items.json"])} :
        /\ Becomes([Now EXCEPT !.data = r.data])
        /\ ormOp' = [NoOrmOp EXCEPT !.op = "reload",
                                    !.value = [items |-> ormOp.ret.items, data |-> data],
                                    !.ret = Coll(r.result), !.err = r.err]
        /\ UNCHANGED <<instances, storeVars, runnerVars, casVars>>

\* a rollback that clears the staged generation as well
rollback_WithStaged(w, e) ==
    [w EXCEPT !.data[e] = clear_snapshot(clear_snapshot(@, "working", FieldNames),
                                         "staged", FieldNames)]

\* a rollback that clears every generation
rollback_AllGenerations(w, e) == [w EXCEPT !.data[e] = EmptyStore]

\* Model.rollback: self.data_store.clear_snapshot('working')
rollback(w, e) == [w EXCEPT !.data[e] = clear_snapshot(@, "working", FieldNames)]

\* instance.rollback()
Rollback ==
    \E e \in SaveEnts \cup {NewEnt} :
        /\ data[e] # EmptyStore
        /\ Becomes(rollback(Now, e))
        /\ ormOp' = [NoOrmOp EXCEPT !.op = "rollback", !.ent = e]
        /\ UNCHANGED <<instances, storeVars, runnerVars, casVars>>


(***************************************************************************)
(* Specifications                                                          *)
(***************************************************************************)
StoreInit ==
    /\ objs = EmptyBag
    /\ refs = [r \in Repos |-> [n \in RefNames |-> RefNone]]
    /\ lastOp = NoOp

RunnerInit ==
    /\ rpc = "idle"
    /\ retries = 0
    /\ conn = 0
    /\ factoryCalls = 0
    /\ managerConn = -1
    /\ curErr = NoErr
    /\ funcResult = "None"
    /\ outcome = [kind |-> "running", err |-> NoErr, result |-> "None"]
    /\ log = <<>>

CasIdle ==
    /\ tpc = [t \in Txns |-> "done"]
    /\ tnew = [t \in Txns |-> RefNone]
    /\ tcur = [t \in Txns |-> RefNone]
    /\ treal = [t \in Txns |-> ""]
    /\ tres = [t \in Txns |-> "None"]
    /\ twrite = [t \in Txns |-> NoWrite]
    /\ lockHolder = [n \in RefNames |-> "none"]
    /\ aborts = [t \in Txns |-> 0]

\* the documents of the storage: project.json and items.json with schema s1, which
\* holds field f1
Fixture ==
    [p \in Paths |->
        CASE p = "project.json" -> ProjectDoc("P")
          [] p = "items.json" ->
                 SchemasDoc(<<SchemaBody("s1", "x", <<FieldBody("f1", "x")>>)>>)
          [] OTHER -> Missing]

\* no instance was made and nothing was loaded
OrmInit ==
    /\ data = [k \in StoreKeys |-> EmptyStore]
    /\ loaded = {}
    /\ files = Fixture
    /\ calls = <<>>
    /\ opens = [p \in Paths |-> 0]
    /\ instances = [i \in Instances |-> NoInstance]
    /\ ormOp = NoOrmOp

Init == StoreInit /\ RunnerInit /\ CasIdle /\ OrmInit

Next ==
    \/ AddObject
    \/ AddObjects
    \/ DeleteObjects
    \/ GetRaw
    \/ ContainsLoose
    \/ AddPackCommit
    \/ AddThinPack
    \/ CompleteThinPack

Spec == Init /\ [][Next]_vars

InitRefs == Init

NextRefs ==
    \/ SetIfEquals
    \/ SetSymbolicRef
    \/ AddIfNew
    \/ RemoveIfEquals
    \/ ReadLooseRef

SpecRefs == InitRefs /\ [][NextRefs]_vars

\* SpecNS: two repositories in one database; every writing operation is issued for
\* NsA, reads are issued for NsB, whose rows were stored before
NsA == "A"
NsB == "B"
\* the refs of NsB at the start: none, or a symbolic HEAD and a branch
NsRefs ==
    {[n \in RefNames |-> RefNone],
     [n \in RefNames |-> IF n = "HEAD" THEN SymVal("refs/heads/master") ELSE Sha("h1")]}

InitNS ==
    /\ \E S \in SUBSET Objects : objs = SetToBag({Row(o, NsB) : o \in S})
    /\ \E rs \in NsRefs : refs = [r \in Repos |-> IF r = NsB THEN rs
                                                   ELSE [n \in RefNames |-> RefNone]]
    /\ lastOp = NoOp
    /\ RunnerInit
    /\ CasIdle
    /\ OrmInit

IssuedFor(repo) == lastOp'.repo = repo

NextNS ==
    \/ AddObject /\ IssuedFor(NsA)
    \/ AddObjects /\ IssuedFor(NsA)
    \/ DeleteObjects /\ IssuedFor(NsA)
    \/ SetIfEquals /\ IssuedFor(NsA)
    \/ AddIfNew /\ IssuedFor(NsA)
    \/ SetSymbolicRef /\ IssuedFor(NsA)
    \/ RemoveIfEquals /\ IssuedFor(NsA)
    \/ DeleteRepo /\ IssuedFor(NsA)
    \/ GetRaw /\ IssuedFor(NsB)
    \/ ContainsLoose /\ IssuedFor(NsB)
    \/ ReadLooseRef /\ IssuedFor(NsB)

SpecNS == InitNS /\ [][NextNS]_vars

\* SpecRepo: the class methods of MysqlRepo next to writes of objects and of refs
InitRepo == Init

NextRepo ==
    \/ InitBare
    \/ RepoExists
    \/ ListRepos
    \/ DeleteRepo
    \/ AddObject
    \/ AddIfNew

SpecRepo == InitRepo /\ [][NextRepo]_vars

\* SpecBroken: items.json is missing, cannot be read, holds a field whose body
\* contradicts its envelope key, or is sound
BrokenDocs ==
    {Missing, Unreadable,
     SchemasDoc(<<SchemaBody("s1", "x", <<[FieldBody("f1", "x") EXCEPT !.id = "f9"]>>)>>)}

InitBroken ==
    /\ StoreInit /\ RunnerInit /\ CasIdle
    /\ data = Constructed({"s1", "f1"})
    /\ loaded = {}
    /\ \E doc \in BrokenDocs \cup {Fixture["items.json"]} :
           files = [Fixture EXCEPT !["items.json"] = doc]
    /\ calls = <<>>
    /\ opens = [p \in Paths |-> 0]
    /\ instances = [i \in Instances |-> NoInstance]
    /\ ormOp = NoOrmOp

NextBroken ==
    \/ ReadField
    \/ WriteField

SpecBroken == InitBroken /\ [][NextBroken]_vars

InitRunner == Init

InitData == Init

NextData ==
    \/ ModelInit
    \/ SetData
    \/ GetData

SpecData == InitData /\ [][NextData]_vars

\* the instances of RelConstructed were made with their primary keys and nothing else
InitRel ==
    /\ StoreInit /\ RunnerInit /\ CasIdle
    /\ data = [k \in StoreKeys |->
                  IF k \in RelConstructed
                  THEN ModelSnapshots_set(EmptyStore, _pk_field(ModelOf(k)), Str(k),
                                          "working")
                  ELSE EmptyStore]
    /\ loaded = {}
    /\ files = Fixture
    /\ calls = <<>>
    /\ opens = [p \in Paths |-> 0]
    /\ instances = [i \in Instances |-> NoInstance]
    /\ ormOp = NoOrmOp

NextRel == AssignBelongsTo

SpecRel == InitRel /\ [][NextRel]_vars

InitSave ==
    /\ StoreInit /\ RunnerInit /\ CasIdle
    /\ data = Constructed(SaveEnts)
    /\ loaded = {}
    /\ files = Fixture
    /\ calls = <<>>
    /\ opens = [p \in Paths |-> 0]
    /\ instances = [i \in Instances |-> NoInstance]
    /\ ormOp = NoOrmOp

NextSave ==
    \/ ReadField
    \/ WriteField
    \/ AccessHasMany
    \/ NewField
    \/ Save

SpecSave == InitSave /\ [][NextSave]_vars

\* SpecFold: reads, writes, save(only=...) and rollback on s1 and f1 of the project
InitFold == InitSave

\* the operation is issued on the schema s1 or on its field f1
OnFoldEnts == ormOp'.ent \in {"s1", "f1"}

NextFold ==
    \/ ReadField /\ OnFoldEnts
    \/ WriteField
    \/ AccessHasMany /\ ormOp'.ent = "P"
    \/ Save /\ OnFoldEnts
    \/ SaveOnly /\ OnFoldEnts
    \/ Rollback /\ OnFoldEnts

SpecFold == InitFold /\ [][NextFold]_vars

\* SpecStage: fields of s1 and f1 are written, staged, read and rolled back
InitStage == InitSave

NextStage ==
    \/ ReadField /\ OnFoldEnts
    \/ WriteField
    \/ Stage /\ OnFoldEnts
    \/ Rollback /\ OnFoldEnts

SpecStage == InitStage /\ [][NextStage]_vars

\* SpecEnvelope: items.json holds an envelope of one or two schemas; a body carries
\* no primary key, the envelope key or another key; s1 holds up to two fields
BodyIds(key, other) == {NoKey, key, other}
FieldEnvelopes ==
    {<<>>}
    \cup {<<[FieldBody("f1", "x") EXCEPT !.id = i]>> : i \in BodyIds("f1", "f9")}
    \cup {<<[FieldBody("f1", "x") EXCEPT !.id = i], FieldBody("f2", "y")>> :
              i \in BodyIds("f1", "f9")}
    \cup {<<FieldBody("f2", "y"), [FieldBody("f1", "x") EXCEPT !.id = NoKey]>>}
SchemaEntries(key, envelopes) ==
    {[SchemaBody(key, "x", fs) EXCEPT !.id = i] :
        i \in BodyIds(key, "s9"), fs \in envelopes}
EnvelopeDocs ==
    {SchemasDoc(<<a>>) : a \in SchemaEntries("s1", FieldEnvelopes)}
    \cup {SchemasDoc(<<a, b>>) : a \in SchemaEntries("s1", FieldEnvelopes),
                                  b \in SchemaEntries("s2", {<<>>})}
    \cup {SchemasDoc(<<b, a>>) : a \in SchemaEntries("s1", FieldEnvelopes),
                                  b \in SchemaEntries("s2", {<<>>})}

InitEnvelope ==
    /\ StoreInit /\ RunnerInit /\ CasIdle
    /\ data = NoData
    /\ loaded = {}
    /\ \E doc \in EnvelopeDocs : files = [Fixture EXCEPT !["items.json"] = doc]
    /\ calls = <<>>
    /\ opens = [p \in Paths |-> 0]
    /\ instances = [i \in Instances |-> NoInstance]
    /\ ormOp = NoOrmOp

NextEnvelope ==
    \/ FileSchemaLoad
    \/ DumpCollection
    \/ Reload

SpecEnvelope == InitEnvelope /\ [][NextEnvelope]_vars

\* SpecKeep: the field f1 is read, written, moved between the schemas s1 and s2,
\* rolled back and saved; project.schemas links the schemas to the project
InitKeep ==
    /\ StoreInit /\ RunnerInit /\ CasIdle
    /\ data = Constructed(SaveEnts \cup {"s2"})
    /\ loaded = {}
    /\ files = Fixture
    /\ calls = <<>>
    /\ opens = [p \in Paths |-> 0]
    /\ instances = [i \in Instances |-> NoInstance]
    /\ ormOp = NoOrmOp

OnField == ormOp'.ent = "f1"

NextKeep ==
    \/ ReadField /\ OnField
    \/ WriteField /\ OnField
    \/ AssignBelongsTo /\ OnField /\ ormOp'.value \in {Inst("s1"), Inst("s2")}
    \/ AccessHasMany /\ ormOp'.ent = "P"
    \/ Save /\ OnField
    \/ Rollback /\ OnField

SpecKeep == InitKeep /\ [][NextKeep]_vars

\* SpecMove: a spider with one or two samples, each in its file under the directory of
\* the spider, and a parent with one or two children listed in one file under the
\* directory of the parent; Spider(storage, id='sp1') or ParentModel(storage, id='p1')
\* is made, renamed and saved
SampleLists == {<<"x1">>, <<"x1", "x2">>}
ChildLists == {<<"c1">>, <<"c1", "c2">>}
MoveFixture(samples, children) ==
    [p \in Paths |->
        CASE p = SpiderPath("sp1") -> SpiderDoc("sp1", samples)
          [] \E i \in 1..Len(samples) : p = SamplePath("sp1", samples[i]) ->
                 SampleDoc(CHOOSE x \in Members(Coll(samples)) : p = SamplePath("sp1", x),
                           "x", "sp1")
          [] p = "parents.json" ->
                 ParentDoc("p1", [i \in 1..Len(children) |-> ChildBody(children[i], "p1")])
          [] p = ChildrenPath("p1") ->
                 ChildrenDoc([i \in 1..Len(children) |-> ChildBody(children[i], "p1")])
          [] OTHER -> Missing]

InitMove ==
    /\ StoreInit /\ RunnerInit /\ CasIdle
    /\ \E e \in RenameEnts : data = Constructed({e})
    /\ loaded = {}
    /\ \E samples \in SampleLists, children \in ChildLists :
           files = MoveFixture(samples, children)
    /\ calls = <<>>
    /\ opens = [p \in Paths |-> 0]
    /\ instances = [i \in Instances |-> NoInstance]
    /\ ormOp = NoOrmOp

OnMoveEnts == ormOp'.ent \in MoveEnts

NextMove ==
    \/ Rename
    \/ Save /\ OnMoveEnts

SpecMove == InitMove /\ [][NextMove]_vars

\* SpecFail: SpecMove with a storage whose write calls may raise
InitFail == InitMove

NextFail ==
    \/ Rename
    \/ Save /\ OnMoveEnts
    \/ SaveFailing /\ OnMoveEnts

SpecFail == InitFail /\ [][NextFail]_vars

\* SpecWalk: the project document and items.json as in SpecSave, the schema and field
\* reached through project.schemas and schema.fields, and two instances of
\* ManyFileModel whose owner is assigned; the walk of _commit_changes runs to its end
\* before anything else happens
InitWalk ==
    /\ StoreInit /\ RunnerInit /\ CasIdle
    /\ data = Constructed({"P", "s1", "f1"} \cup OwnedEnts)
    /\ loaded = {}
    /\ files = Fixture
    /\ calls = <<>>
    /\ opens = [p \in Paths |-> 0]
    /\ instances = [i \in Instances |-> NoInstance]
    /\ ormOp = NoOrmOp

NotWalking == ormOp.op # "walk"

NextWalk ==
    \/ AccessHasMany /\ NotWalking
    \/ WriteField /\ NotWalking /\ ormOp'.value = Str("y")
    \/ AssignOwner /\ NotWalking
    \/ OwnerWalk

\* the loop is a running call: its next iteration is always taken
SpecWalk == InitWalk /\ [][NextWalk]_vars /\ WF_vars(OwnerWalk)

NextRunner ==
    \/ RunWithConnection
    \/ ConnectionFactory
    \/ Func
    \/ Commit
    \/ ReRaise
    \/ RollbackRetry
    \/ Reconnect
    \/ RollbackFinal

SpecRunner == InitRunner /\ [][NextRunner]_vars

\* the call is running code: each call it makes returns or raises, and its next step
\* is taken
SpecRunnerLive == InitRunner /\ [][NextRunner]_vars /\ WF_vars(NextRunner)

InitCAS ==
    /\ objs = EmptyBag
    /\ refs = [r \in Repos |-> [n \in RefNames |->
                  IF r = CasRepo /\ n = CasName THEN CasOld ELSE RefNone]]
    /\ lastOp = NoOp
    /\ RunnerInit
    /\ tpc = [t \in Txns |-> "start"]
    /\ tnew \in [Txns -> CasNew]
    /\ tcur = [t \in Txns |-> RefNone]
    /\ treal = [t \in Txns |-> ""]
    /\ tres = [t \in Txns |-> "None"]
    /\ twrite = [t \in Txns |-> NoWrite]
    /\ lockHolder = [n \in RefNames |-> "none"]
    /\ aborts = [t \in Txns |-> 0]
    /\ OrmInit

NextCAS ==
    \E t \in Txns :
        \/ TxnRead(t)
        \/ TxnCompare(t)
        \/ TxnFollow(t)
        \/ TxnUpdate(t)
        \/ TxnCommit(t)
        \/ TxnAbort(t)

SpecCAS == InitCAS /\ [][NextCAS]_vars

(***************************************************************************)
(* Properties                                                              *)
(***************************************************************************)
AllDone == \A t \in Txns : tpc[t] = "done"

\* C1: two transactions that call set_if_equals on the same ref with the same old_ref,
\* equal to the value stored before either ran, and new values different from it: once
\* both have committed, exactly one call has returned True and the other False, and the
\* ref holds the new value of the one that returned True.
C1_ExactlyOneCasSucceeds ==
    AllDone =>
        /\ Cardinality({t \in Txns : tres[t] = "True"}) = 1
        /\ Cardinality({t \in Txns : tres[t] = "False"}) = 1
        /\ \A t \in Txns : tres[t] = "True" => refs[CasRepo][CasName] = tnew[t]

\* C1 witness: both committed; t1 was rolled back once and lost, t2 won
C1_Witness ==
    /\ AllDone
    /\ tres["t1"] = "False"
    /\ tres["t2"] = "True"
    /\ aborts["t1"] = 1
    /\ refs[CasRepo][CasName] = tnew["t2"]

\* the ref a write through name reaches: the target of a symbolic ref, else name itself
WriteTarget(rs, name) == IF rs[name].sym THEN rs[name].v ELSE name

C2_Step ==
    lastOp'.op = "set_if_equals" =>
        LET repo == lastOp'.repo
            name == lastOp'.name
            old == lastOp'.old
            stored == refs[repo][name]
            target == WriteTarget(refs[repo], name)
        IN  IF old # RefNone /\ old # stored
            THEN lastOp'.ret = FALSE /\ refs' = refs
            ELSE /\ lastOp'.ret = TRUE
                 /\ lastOp'.err = "ok"
                 /\ refs'[repo][target] = lastOp'.new
                 /\ \A r \in Repos, n \in RefNames :
                        (r # repo \/ n # target) => refs'[r][n] = refs[r][n]

\* C2: set_if_equals(name, old_ref, new_ref): when old_ref is not None and differs from
\* the stored value of name (also when name has no row) it returns False and no ref
\* changes; otherwise it writes new_ref (to the ref that name designates) and returns True.
C2_CompareAndSet == [][C2_Step]_vars

\* C2 witness: a call whose old_ref differed from the stored sha and returned False
C2_Witness ==
    /\ lastOp.op = "set_if_equals"
    /\ lastOp.old \in ShaVals
    /\ lastOp.cur \in ShaVals
    /\ lastOp.old # lastOp.cur
    /\ lastOp.ret = FALSE
    /\ refs[lastOp.repo][lastOp.name] = lastOp.cur

IsFunc(e) == e.ev \in {"func_ok", "func_err"}
IsCommit(e) == e.ev \in {"commit_ok", "commit_err"}
IsRollback(e) == e.ev \in {"rollback_ok", "rollback_err"}
\* number of times func was invoked
Invocations == Cardinality({i \in 1..Len(log) : IsFunc(log[i])})
\* an error of an attempt that the handler retries while the bound allows
Transient(e) ==
    e.cls \in ERRORS /\ (e.cls = "OperationalError" => e.code \in {2006, 2013, 1213})

\* C3 as stated: the operation is attempted at most 3 times in one top-level call.
C3_AtMostThreeAttempts == Invocations <= 3

\* C3 amended: the operation is attempted at most RETRIES + 1 = 4 times in one top-level
\* call; a call in which 4 attempts failed has ended by raising the error of the 4th.
C3_AtMostFourAttempts ==
    /\ Invocations <= RETRIES + 1
    /\ (Invocations = RETRIES + 1 /\ rpc = "done" /\ outcome.kind = "raised")
           => outcome.err = curErr

\* C3 witness: four attempts, each failed with a transient error, and the call raised
C3_Witness ==
    /\ rpc = "done"
    /\ Invocations = 4
    /\ \A i \in 1..Len(log) : ~IsCommit(log[i])
    /\ outcome.kind = "raised"
    /\ Transient(outcome.err)

\* C4: a call that ended by re-raising a non-retryable error of an attempt (an exception
\* outside ERRORS, or an OperationalError whose code is not 1213, 2006 or 2013) rolled
\* the connection back after that attempt, before raising.
C4_RollbackBeforeReraise ==
    (rpc = "done" /\ outcome.kind = "raised" /\ outcome.err = curErr
        /\ ~Transient(outcome.err))
        => (log # <<>> /\ IsRollback(log[Len(log)]))

\* C5 as stated: once an attempt returned normally and commit was called, the call has
\* returned the result of the operation and no rollback was made for that attempt.
C5_CommitThenReturn ==
    \A i \in 1..Len(log) :
        (log[i].ev = "func_ok" /\ i < Len(log)) =>
            /\ i + 1 = Len(log)
            /\ outcome.kind = "returned"
            /\ outcome.result = funcResult

\* C5 amended: an attempt that returns normally is followed by exactly one commit call on
\* the same connection; when that commit succeeds the call returns the result of that
\* attempt and nothing else is done on the connection (no rollback); a call returns only
\* after a successful commit.
C5_CommitOnceAndReturnIfCommitted ==
    /\ \A i \in 1..Len(log) :
           (log[i].ev = "func_ok" /\ i < Len(log)) =>
               /\ IsCommit(log[i + 1])
               /\ log[i + 1].conn = log[i].conn
               /\ (i + 2 <= Len(log) => ~IsCommit(log[i + 2]))
               /\ log[i + 1].ev = "commit_ok" =>
                      /\ i + 1 = Len(log)
                      /\ rpc = "done"
                      /\ outcome.kind = "returned"
                      /\ outcome.result = funcResult
    /\ outcome.kind = "returned" =>
           /\ Len(log) >= 2
           /\ log[Len(log)].ev = "commit_ok"
           /\ log[Len(log) - 1].ev = "func_ok"
           /\ outcome.result \in Results

\* C5 witness: the second attempt returned normally, was committed and its result returned
C5_Witness ==
    /\ rpc = "done"
    /\ outcome.kind = "returned"
    /\ outcome.result = "r2"
    /\ Invocations = 2
    /\ log[Len(log)].ev = "commit_ok"

C7_RollbackReconnectRetry ==
    \A i \in 1..Len(log) :
        (IsFunc(log[i]) /\ \E j \in 1..(i - 1) : IsFunc(log[j])) =>
            /\ i >= 5
            /\ log[i - 1].ev = "factory"
            /\ log[i - 2].ev = "reconnect_ok"
            /\ IsRollback(log[i - 3])
            /\ log[i - 4].ev \in {"func_err", "commit_err"}
            /\ log[i - 2].conn = log[i - 4].conn

\* C7 witness: the operation was re-invoked after a rollback that failed
C7_Witness ==
    \E i \in 5..Len(log) :
        /\ IsFunc(log[i])
        /\ log[i - 2].ev = "reconnect_ok"
        /\ log[i - 3].ev = "rollback_err"

C8_Step ==
    lastOp'.op \in {"add_object", "add_objects"} =>
        /\ lastOp'.err = "ok"
        /\ \A oid \in lastOp'.oids : CountAt(objs', oid, lastOp'.repo) = 1
        /\ (\A oid \in lastOp'.oids : HAS(objs, oid, lastOp'.repo) = 1) => objs' = objs
        /\ \A r \in BagToSet(objs') : CopiesIn(r, objs') = 1

\* C8: add_object / add_objects of an object whose oid is already stored in the namespace
\* raises no error and leaves the table as it was; after any insert exactly one row is
\* stored under the oid.
C8_IdempotentInsert == [][C8_Step]_vars

\* C8 witness: add_objects was given the same object twice and one row is stored
C8_Witness ==
    /\ lastOp.op = "add_objects"
    /\ Len(lastOp.entries) = 2
    /\ lastOp.entries[1] = lastOp.entries[2]
    /\ lastOp.err = "ok"
    /\ CountAt(objs, Oid(lastOp.entries[1]), lastOp.repo) = 1

\* C9: get_raw of a well-formed sha that is not stored in the namespace fails with an
\* error; it does not return.
C9_GetAbsentFails ==
    (lastOp.op = "get_raw" /\ HAS(objs, lastOp.name, lastOp.repo) = 0)
        => lastOp.err # "ok"

C10_Step ==
    (lastOp'.op \in {"add_thin_pack", "add_pack_commit"} /\ lastOp'.err # "ok")
        => objs' = objs

C11_ThinPackCompletion ==
    (lastOp.op = "_complete_thin_pack" /\ lastOp.err = "ok") =>
        LET N == Len(lastOp.entries)
            M == Len(lastOp.ext)
            p == PackData(lastOp.count, lastOp.buf)
        IN  /\ lastOp.count = N + M
            /\ Len(lastOp.buf) = N + M
            /\ SubSeq(lastOp.buf, 1, N) = lastOp.entries
            /\ \A i \in 1..M :
                   /\ lastOp.buf[N + i] \in Objects
                   /\ Oid(lastOp.buf[N + i]) = lastOp.ext[i]
            /\ p.err = "ok"
            /\ Len(p.objects) = N + M

\* C11 witness: a buffer of one entry and two external references was completed
C11_Witness ==
    /\ lastOp.op = "_complete_thin_pack"
    /\ lastOp.err = "ok"
    /\ Len(lastOp.entries) = 1
    /\ Len(lastOp.ext) = 2
    /\ lastOp.count = 3
    /\ Len(lastOp.buf) = 3

\* C12: the commit function of add_pack, called on a buffered self-contained stream of
\* well-formed entries, completes, and every object of the stream is then contained in
\* the namespace of the store.
C12_PackObjectsStored ==
    (lastOp.op = "add_pack_commit"
        /\ \A i \in 1..Len(lastOp.entries) : lastOp.entries[i] \in Objects)
        => /\ lastOp.err = "ok"
           /\ \A i \in 1..Len(lastOp.entries) :
                  contains_loose(objs, [len |-> 40, id |-> Oid(lastOp.entries[i])],
                                 lastOp.repo).ret

\* every ref other than (repo, name) has the value it had
OtherRefsUnchanged(repo, name) ==
    \A r \in Repos, n \in RefNames : (r # repo \/ n # name) => refs'[r][n] = refs[r][n]

C13_Step ==
    lastOp'.op = "add_if_new" =>
        LET repo == lastOp'.repo
            name == lastOp'.name
        IN  IF refs[repo][name] # RefNone
            THEN lastOp'.ret = FALSE /\ refs' = refs
            ELSE /\ lastOp'.ret = TRUE
                 /\ refs'[repo][name] = lastOp'.new
                 /\ OtherRefsUnchanged(repo, name)

\* C13: add_if_new(name, ref) returns False and changes no ref when a row for name
\* exists in the namespace (holding a sha or a symbolic value); when none exists it
\* stores ref under name and returns True.
C13_CreateIfAbsent == [][C13_Step]_vars

\* C13 witness: add_if_new on a name holding another sha returned False, the sha is kept
C13_Witness ==
    /\ lastOp.op = "add_if_new"
    /\ lastOp.cur \in ShaVals
    /\ lastOp.new # lastOp.cur
    /\ lastOp.ret = FALSE
    /\ refs[lastOp.repo][lastOp.name] = lastOp.cur

C14_Step ==
    lastOp'.op = "remove_if_equals" =>
        LET repo == lastOp'.repo
            name == lastOp'.name
            old == lastOp'.old
        IN  IF old # RefNone /\ old # refs[repo][name]
            THEN lastOp'.ret = FALSE /\ refs' = refs
            ELSE /\ lastOp'.ret = TRUE
                 /\ read_loose_ref(refs'[repo], name) = RefNone
                 /\ name \notin allkeys(refs'[repo])
                 /\ OtherRefsUnchanged(repo, name)

\* C14: remove_if_equals(name, old_ref): when old_ref is not None and differs from the
\* stored value it returns False and no ref changes (the ref keeps its value); when
\* old_ref equals the stored value, or is None, the row of name is deleted, a read of
\* name gives None, and True is returned.
C14_DeleteIfMatches == [][C14_Step]_vars

\* C14 witness: remove_if_equals with a sha other than the stored one returned False and
\* the ref still holds its sha
C14_Witness ==
    /\ lastOp.op = "remove_if_equals"
    /\ lastOp.old \in ShaVals
    /\ lastOp.cur \in ShaVals
    /\ lastOp.old # lastOp.cur
    /\ lastOp.ret = FALSE
    /\ refs[lastOp.repo][lastOp.name] = lastOp.cur

\* the rows of one repository in the objs table
NsRows(tbl, repo) ==
    LET S == {r \in BagToSet(tbl) : r.repo = repo}
    IN  [r \in S |-> tbl[r]]

C15_Step ==
    /\ \A r \in Repos \ {lastOp'.repo} :
           /\ NsRows(objs', r) = NsRows(objs, r)
           /\ refs'[r] = refs[r]
    /\ (lastOp'.op = "get_raw" /\ ~lastOp'.row.isNone) =>
           \E x \in BagToSet(NsRows(objs, lastOp'.repo)) :
               /\ x.oid = lastOp'.name
               /\ x.type = lastOp'.row.type
               /\ x.data = lastOp'.row.data
    /\ (lastOp'.op = "contains_loose" /\ lastOp'.ret) =>
           \E x \in BagToSet(NsRows(objs, lastOp'.repo)) : x.oid = lastOp'.name
    /\ lastOp'.op = "read_loose_ref" => lastOp'.cur = refs[lastOp'.repo][lastOp'.name]

\* C15: every operation issued for one repository (add_object, add_objects,
\* delete_objects, set_if_equals, add_if_new, set_symbolic_ref, remove_if_equals,
\* delete_repo) leaves the objs rows and the refs of every other repository as they
\* were, and a read issued for a repository returns only what is stored under that
\* repository.
C15_NamespaceIsolation == [][C15_Step]_vars

\* C15 witness: contains_loose in NsB of an oid that is stored in NsA only returned False
C15_Witness ==
    /\ lastOp.op = "contains_loose"
    /\ lastOp.repo = NsB
    /\ lastOp.err = "ok"
    /\ lastOp.ret = FALSE
    /\ HAS(objs, lastOp.name, NsA) = 1
    /\ HAS(objs, lastOp.name, NsB) = 0
    /\ \E o \in Objects : HAS(objs, Oid(o), NsB) = 1

\* the last two operations were a set_data and a get_data of its key through two
\* instances of one data_key
SetThenGet ==
    /\ ormOp.op = "set_data"
    /\ ormOp'.op = "get_data"
    /\ ormOp'.inst # ormOp.inst
    /\ ormOp'.key = ormOp.key

\* C16 as stated: two instances made with the same storage, model and primary key
\* share one snapshot store, and a set_data through either is visible to the get_data
\* through the other that follows it.
C16_SetVisibleToAnyHandle == [][SetThenGet => ormOp'.ret = ormOp.value]_vars

\* C16 amended: two instances made with the same storage, model and primary key share
\* one snapshot store: a set_data through either writes the first generation of its
\* snapshot order into that store, and the get_data through the other that follows it
\* returns the value when its snapshot order starts with the same generation.
C16_SetVisibleToSameOrder ==
    [][SetThenGet =>
          /\ data'[InstanceKey][Head(ormOp.snapshots)][ormOp.key] = ormOp.value
          /\ \A i \in Instances : data'[i] = EmptyStore
          /\ Head(ormOp'.snapshots) = Head(ormOp.snapshots) => ormOp'.ret = ormOp.value]_vars

\* C16 witness: both instances have the default order, the value one of them set was
\* read through the other, and the document of the key holds another value
C16_Witness ==
    /\ ormOp.op = "get_data"
    /\ ormOp.inst = "i2"
    /\ instances["i1"].snapshots = default_snapshots
    /\ instances["i2"].snapshots = default_snapshots
    /\ ormOp.ret = Str("y")
    /\ data[InstanceKey]["working"]["name"] = Str("y")
    /\ data[InstanceKey]["committed"]["name"] = Absent

\* the value of a field as a handle with the default snapshots reads it
DefaultView(e, f) == ModelSnapshots_get(data[e], f, default_snapshots)

\* the inverse field inv of b references a
References(b, inv, a) ==
    \/ DefaultView(b, inv) = Inst(a)
    \/ DefaultView(b, inv).k = "coll" /\ a \in Members(DefaultView(b, inv))

\* C17: after any sequence of belongs-to assignments, for every entity a with
\* a.ref = b the inverse of b contains a (has-many) or equals a (one-to-one), and no
\* other entity's inverse references a.
C17_RelationshipSymmetry ==
    \A a \in Ents : \A f \in _fields(ModelOf(a)) :
        LET decl == FieldDecl(ModelOf(a), f)
        IN  (decl.kind = "BelongsTo" /\ DefaultView(a, f).k = "inst") =>
                /\ References(DefaultView(a, f).e, decl.related_name, a)
                /\ \A c \in Keys[decl.model] \ {DefaultView(a, f).e} :
                       ~References(c, decl.related_name, a)

\* C18: assigning to a belongs-to field a value that is neither None nor an instance
\* of the related model fails with ValidationError and changes nothing: no snapshot
\* store changes (the assigning entity's field and every target's inverse keep their
\* values), nothing is loaded and Storage is not called.
C18_RejectedAssignmentChangesNothing ==
    [][(ormOp'.op = "__set__" /\ ~_validate(FieldDecl(ModelOf(ormOp'.ent), ormOp'.key).model,
                                           ormOp'.value))
          => /\ ormOp'.err = "ValidationError"
             /\ data' = data
             /\ loaded' = loaded
             /\ files' = files
             /\ calls' = <<>>]_vars

\* C18 witness: an instance of another model was rejected for a field that has a
\* target, and the target's inverse still references the entity
C18_Witness ==
    /\ ormOp.op = "__set__"
    /\ ormOp.err = "ValidationError"
    /\ ormOp.ent = "a1"
    /\ ormOp.value = Inst("P")
    /\ DefaultView("a1", "m2") = Inst("b2")
    /\ DefaultView("b2", "m1") = Inst("a1")

\* C19: across any sequence of field reads, has-many accesses and saves on entities
\* of one Storage, Storage.open is called at most once for any path.
C19_OpenAtMostOncePerPath == \A p \in Paths : opens[p] <= 1

\* C19 witness: the documents were opened once each, and a later read of a field of a
\* loaded entity made no Storage call
C19_Witness ==
    /\ opens["items.json"] = 1
    /\ opens["project.json"] = 1
    /\ ormOp.op = "get_data"
    /\ ormOp.ent = "f1"
    /\ ormOp.ret = Str("x")
    /\ calls = <<>>

\* the number of Storage.save calls the last operation made on a path
SaveCalls(path) == Cardinality({i \in 1..Len(calls) : calls[i] = Call("save", path)})

\* the document of the schemas of the project as the staged and committed generations
\* hold them
GroupDocument ==
    SchemasDoc(dump_schemas(data, ItemsOf(data["P"], "schemas", <<"staged", "committed">>),
                            <<"staged", "committed">>).bodies)

\* C20: within one save() call Storage.save is called at most once for any path, and
\* the write of items.json carries the document of the whole group, dumped through the
\* project's schemas.
C20_OneSavePerPath ==
    \A p \in Paths :
        /\ SaveCalls(p) <= 1
        /\ (ormOp.op = "save" /\ ormOp.err = "ok" /\ SaveCalls("items.json") = 1)
               => files["items.json"] = GroupDocument

\* C20 witness: the save of a new field, with its schema dirty too, wrote items.json
\* once, with the edited name of the other field of the schema
C20_Witness ==
    /\ ormOp.op = "save"
    /\ ormOp.ent = NewEnt
    /\ ormOp.err = "ok"
    /\ SaveCalls("items.json") = 1
    /\ files["items.json"] =
           SchemasDoc(<<SchemaBody("s1", "x",
                                   <<FieldBody("f1", "y"), FieldBody("f2", "y")>>)>>)

(***************************************************************************)
(* Claims on the generations around save (specification SpecFold)          *)
(***************************************************************************)
\* the state save(only) has staged for the entity e, before _commit_changes runs
StagedBy(e, only) ==
    Bind(resolve_attributes(Now, e, _file_fields(ModelOf(e)), <<"committed">>),
         LAMBDA w1 : _stage_changes(w1.data, e, only).d)

\* the entities a save of e goes over: e and the references it has staged
Touched(d, e) == {c \in Members(Coll(CommitChain(d, e))) : c \in StoreKeys}

\* the step is a save that returned normally
SaveReturned == ormOp'.op = "save" /\ ormOp'.err = "ok"

\* C23: after save() has returned normally, every entity it went over (the target and
\* the related entities it staged) has an empty staged generation, holds in committed
\* every value that was staged, has none of these fields left in working, and reads
\* the committed value under the default order.
C23_Step ==
    SaveReturned =>
        \A d \in {StagedBy(ormOp'.ent, ormOp'.only)} :
            \A k \in Touched(d, ormOp'.ent) :
                /\ KeysIn(data'[k], "staged") = {}
                /\ \A f \in KeysIn(d[k], "staged") :
                       /\ data'[k]["committed"][f] = d[k]["staged"][f]
                       /\ data'[k]["working"][f] = Absent
                       /\ ModelSnapshots_get(data'[k], f, default_snapshots)
                              = d[k]["staged"][f]
C23_FoldOnSave == [][C23_Step]_vars

\* f1.save() has returned normally after f1.name = 'y': items.json was saved in this
\* call and the name is folded
C23_Witness ==
    /\ ormOp.op = "save" /\ ormOp.err = "ok" /\ ormOp.ent = "f1"
    /\ SaveCalls("items.json") = 1
    /\ data["f1"]["committed"]["name"] = Str("y")
    /\ data["f1"]["working"]["name"] = Absent
    /\ KeysIn(data["f1"], "staged") = {}

\* the state a save of e works on: the one lazy load of its document is done
Resolved(e) == resolve_attributes(Now, e, _file_fields(ModelOf(e)), <<"committed">>)

\* no field of the working generation of the store differs from committed, and the
\* path of the model is the same under both orders
CleanStore(d, e) ==
    /\ dirty_fields(d[e], "working", <<"committed">>) = {}
    /\ storage_path(ModelOf(e), d, e, TRUE, <<"staged", "committed">>)
           = storage_path(ModelOf(e), d, e, TRUE, <<"committed", "staged">>)

\* the Storage.save and Storage.delete calls of the last operation
Writes(cs) == {i \in 1..Len(cs) : cs[i].fn \in {"save", "delete"}}

\* the step is a save of an entity that is clean once its document is loaded
\* and it leaves what the claim says
NoWriteNoChange(w1, e) ==
    /\ Writes(calls') = {}
    /\ data'[e]["staged"] = w1.data[e]["staged"]
    /\ data'[e]["committed"] = w1.data[e]["committed"]

\* C24 as stated: a save() of an entity with no working field that differs from
\* committed and an unchanged path calls neither Storage.save nor Storage.delete and
\* leaves the staged and committed generations of the entity as the lazy load of its
\* document left them.
C24_Step_Stated ==
    ormOp'.op = "save" =>
        \A w1 \in {Resolved(ormOp'.ent)} :
            CleanStore(w1.data, ormOp'.ent)
                => NoWriteNoChange(w1, ormOp'.ent)
C24_CleanSaveWritesNothing == [][C24_Step_Stated]_vars

\* C24 (amended): a save() of an entity with no working field that differs from
\* committed and an unchanged path, when neither the entity nor an entity it
\* references holds a staged value, calls neither Storage.save nor Storage.delete and
\* leaves the staged and committed generations of the entity as the lazy load of its
\* document left them.
NothingStaged(d, e) == \A k \in Touched(d, e) : KeysIn(d[k], "staged") = {}

C24_Step ==
    ormOp'.op = "save" =>
        \A w1 \in {Resolved(ormOp'.ent)} :
            (/\ CleanStore(w1.data, ormOp'.ent)
             /\ NothingStaged(w1.data, ormOp'.ent))
                => NoWriteNoChange(w1, ormOp'.ent)
C24_CleanUnstagedSaveWritesNothing == [][C24_Step]_vars

\* s1.save() on a fresh handle: the document was loaded in this call, the working
\* primary key equals the committed one, and nothing was written
C24_Witness ==
    /\ ormOp.op = "save" /\ ormOp.ent = "s1" /\ ormOp.err = "ok"
    /\ OpenCalls(calls, "items.json") = 1
    /\ Writes(calls) = {}
    /\ data["s1"]["working"]["id"] = data["s1"]["committed"]["id"]
    /\ data["s1"]["committed"]["name"] = Str("x")
    /\ KeysIn(data["s1"], "staged") = {}

\* the working fields of e that are dirty against committed and outside the selection
DirtyOutside(st, only) == dirty_fields(st, "working", <<"committed">>) \ only

\* the field of e is left out by the save: staged and committed hold for it what they
\* held, working keeps its value, and the field is still dirty against committed
LeftOut(w1, e, f) ==
    /\ data'[e]["staged"][f] = w1.data[e]["staged"][f]
    /\ data'[e]["committed"][f] = w1.data[e]["committed"][f]
    /\ data'[e]["working"][f] = w1.data[e]["working"][f]
    /\ f \in dirty_fields(data'[e], "working", <<"committed">>)

\* C25 as stated: save(only=S) leaves out every dirty working field of the target that
\* is not in S: the field is not copied into staged or committed, keeps its working
\* value and is still dirty against committed after the save.
C25_Step_Stated ==
    ormOp'.op = "save" =>
        \A w1 \in {Resolved(ormOp'.ent)} :
            \A f \in DirtyOutside(w1.data[ormOp'.ent], ormOp'.only) :
                LeftOut(w1, ormOp'.ent, f)
C25_OnlySelectedFields == [][C25_Step_Stated]_vars

\* C25 (amended): when the target holds no staged value before the call, save(only=S)
\* leaves out every dirty working field of the target that is not in S: the field is
\* not copied into staged or committed, keeps its working value and is still dirty
\* against committed after the save.
C25_Step ==
    ormOp'.op = "save" =>
        \A w1 \in {Resolved(ormOp'.ent)} :
            KeysIn(w1.data[ormOp'.ent], "staged") = {} =>
                \A f \in DirtyOutside(w1.data[ormOp'.ent], ormOp'.only) :
                    LeftOut(w1, ormOp'.ent, f)
C25_OnlySelectedFieldsOfUnstaged == [][C25_Step]_vars

\* f1.save(only=['id']) has returned after f1.name = 'y': the name is still in
\* working only, and the document in storage still holds the name 'x'
C25_Witness ==
    /\ ormOp.op = "save" /\ ormOp.ent = "f1" /\ ormOp.only = {"id"} /\ ormOp.err = "ok"
    /\ data["f1"]["working"]["name"] = Str("y")
    /\ data["f1"]["committed"]["name"] = Str("x")
    /\ data["f1"]["staged"]["name"] = Absent
    /\ "items.json" \in loaded

(***************************************************************************)
(* Claims on the committed generation (specification SpecKeep)             *)
(***************************************************************************)
\* C26: over every step of set_data, relationship assignment, lazy load, rollback and
\* save, a field that is present in the committed generation of an entity stays
\* present in it, and its committed value changes only in a save, to the value that
\* save had staged for the field.
C26_Step ==
    \A k \in StoreKeys, f \in FieldNames :
        data[k]["committed"][f] # Absent =>
            /\ data'[k]["committed"][f] # Absent
            /\ data'[k]["committed"][f] # data[k]["committed"][f] =>
                   /\ ormOp'.op = "save"
                   /\ \A d \in {StagedBy(ormOp'.ent, ormOp'.only)} :
                          d[k]["staged"][f] = data'[k]["committed"][f]
C26_CommittedKept == [][C26_Step]_vars

\* f1.rollback() after a save has folded the name 'y' over the loaded name 'x': the
\* committed fields of f1 are all still present
C26_Witness ==
    /\ ormOp.op = "rollback" /\ ormOp.ent = "f1"
    /\ data["f1"]["committed"]["name"] = Str("y")
    /\ data["f1"]["committed"]["id"] = Str("f1")
    /\ KeysIn(data["f1"], "working") = {}

(***************************************************************************)
(* Claims on reads (specification SpecFold)                                *)
(***************************************************************************)
\* C27: a read of a field through a handle with the default order returns the value
\* of the working generation whenever working holds one, whatever staged and
\* committed hold, and then changes nothing; a read never changes the working or the
\* staged generation of any entity, and committed changes in a read only by the lazy
\* load of a document that the read has opened.
C27_Step ==
    ormOp'.op = "get_data" =>
        /\ data[ormOp'.ent]["working"][ormOp'.key] # Absent =>
               /\ ormOp'.ret = data[ormOp'.ent]["working"][ormOp'.key]
               /\ data' = data
               /\ calls' = <<>>
        /\ \A k \in StoreKeys :
               /\ data'[k]["working"] = data[k]["working"]
               /\ data'[k]["staged"] = data[k]["staged"]
        /\ data' # data => \E p \in Paths : OpenCalls(calls', p) = 1
C27_WorkingPrecedence == [][C27_Step]_vars

\* f1.name was read as 'y' from working while committed holds the loaded name 'x'
C27_Witness ==
    /\ ormOp.op = "get_data" /\ ormOp.ent = "f1" /\ ormOp.key = "name"
    /\ ormOp.ret = Str("y")
    /\ data["f1"]["working"]["name"] = Str("y")
    /\ data["f1"]["committed"]["name"] = Str("x")

(***************************************************************************)
(* Claims on the snapshot operations (specification SpecStage)             *)
(***************************************************************************)
\* the fields _stage_changes(only) copies from working to staged
StagedFields(e, only) == dirty_fields(data[e], "working", <<"committed">>) \cap only

\* C28: once a field set in working was copied by update_snapshot('staged',
\* ('working',)), as _stage_changes does, a read along (staged, committed) returns the
\* working value; and after clear_snapshot('working'), as rollback does, a read along
\* (working,) finds no value while staged holds what it held.
C28_Step ==
    /\ ormOp'.op = "_stage_changes" =>
           \A f \in StagedFields(ormOp'.ent, ormOp'.only) :
               ModelSnapshots_get(data'[ormOp'.ent], f, <<"staged", "committed">>)
                   = data[ormOp'.ent]["working"][f]
    /\ ormOp'.op = "rollback" =>
           \A f \in FieldNames :
               /\ ModelSnapshots_get(data'[ormOp'.ent], f, <<"working">>) = Absent
               /\ data'[ormOp'.ent]["staged"][f] = data[ormOp'.ent]["staged"][f]
C28_SnapshotPrecedence == [][C28_Step]_vars

\* f1.name = 'y' was staged over the committed name 'x' and f1 was rolled back:
\* working holds no name and staged still holds 'y'
C28_Witness ==
    /\ ormOp.op = "rollback" /\ ormOp.ent = "f1"
    /\ data["f1"]["working"]["name"] = Absent
    /\ data["f1"]["staged"]["name"] = Str("y")
    /\ data["f1"]["committed"]["name"] = Str("x")

(***************************************************************************)
(* Claims on envelopes (specification SpecEnvelope)                        *)
(***************************************************************************)
\* an entry of the envelope carries a primary key that is not its envelope key
Mismatch(bodies) ==
    \E i \in 1..Len(bodies) : bodies[i].id \notin {NoKey, bodies[i].key}
\* an entry of a fields envelope of the document does
FieldMismatch(doc) == \E i \in 1..Len(doc.items) : Mismatch(doc.items[i].fields)

\* every object of the envelope and of its fields envelopes has the envelope key as
\* its primary key
KeysInjected(doc) ==
    \A i \in 1..Len(doc.items) :
        /\ data[doc.items[i].key]["committed"]["id"] = Str(doc.items[i].key)
        /\ \A j \in 1..Len(doc.items[i].fields) :
               data[doc.items[i].fields[j].key]["committed"]["id"]
                   = Str(doc.items[i].fields[j].key)

\* C29 as stated: the load of an envelope document in which an entry of any envelope
\* (of a Schema, which removes the key from the body, or of a Field, which keeps it)
\* carries another primary key than its envelope key fails with ValidationError; a
\* load that succeeds has given every object its envelope key as primary key.
C29_MismatchFailsEveryModel ==
    ormOp.op = "load" =>
        /\ (Mismatch(ormOp.value.items) \/ FieldMismatch(ormOp.value))
               => ormOp.err = "ValidationError"
        /\ ormOp.err = "ok" => KeysInjected(ormOp.value)

\* C29 (amended): the load fails with ValidationError when an entry of an envelope of
\* a model that keeps the key in the body carries another primary key than its
\* envelope key; a load that succeeds has given every object its envelope key as
\* primary key, also where the body carried none.
C29_MismatchFailsKeptKey ==
    ormOp.op = "load" =>
        /\ FieldMismatch(ormOp.value) => ormOp.err = "ValidationError"
        /\ ormOp.err = "ok" => KeysInjected(ormOp.value)

\* a load has failed on a field body that carries the key f9 under the envelope key
\* f1, in a document whose schema bodies carry no other key: no Schema was created
C29_Witness ==
    /\ ormOp.op = "load" /\ ormOp.err = "ValidationError"
    /\ FieldMismatch(ormOp.value) /\ ~Mismatch(ormOp.value.items)
    /\ data["s1"] = EmptyStore

\* the loaded entity has the primary key and the name the dumped entity reads under
\* the default order
SameValues(before, after, k) ==
    /\ ModelSnapshots_get(after[k], "id", default_snapshots)
           = ModelSnapshots_get(before[k], "id", default_snapshots)
    /\ ModelSnapshots_get(after[k], "name", default_snapshots)
           = ModelSnapshots_get(before[k], "name", default_snapshots)

\* C30: the document dumped from an ordered collection of schemas, whose bodies are
\* written without the key, each with its ordered collection of fields, whose bodies
\* keep the key, loads into entities with the same primary keys in the same order and
\* with equal field values.
C30_EnvelopeRoundTrip ==
    ormOp.op = "reload" =>
        /\ ormOp.err = "ok"
        /\ ormOp.ret.items = ormOp.value.items
        /\ \A i \in 1..Len(ormOp.value.items) :
               LET k == ormOp.value.items[i]
               IN  /\ SameValues(ormOp.value.data, data, k)
                   /\ ItemsOf(data[k], "fields", default_snapshots)
                          = ItemsOf(ormOp.value.data[k], "fields", default_snapshots)
                   /\ \A f \in Members(Coll(ItemsOf(data[k], "fields",
                                                     default_snapshots))) :
                          SameValues(ormOp.value.data, data, f)

\* the collection (s2, s1), where s1 holds the fields (f2, f1), was dumped and loaded
\* again: the document carries no key in the schema bodies and the key in the field
\* bodies
C30_Witness ==
    /\ ormOp.op = "reload" /\ ormOp.err = "ok"
    /\ ormOp.ret.items = <<"s2", "s1">>
    /\ ItemsOf(data["s1"], "fields", default_snapshots) = <<"f2", "f1">>
    /\ files["items.json"].items[2].id = NoKey
    /\ files["items.json"].items[2].fields[2].id = "f1"
    /\ data["f1"]["committed"]["name"] = Str("x")

(***************************************************************************)
(* C21, C22: renames that move documents (specification SpecMove)          *)
(***************************************************************************)
\* the number of calls of a Storage method on a path among the calls of an operation
CallsOf(cs, fn, path) == Cardinality({i \in 1..Len(cs) : cs[i] = Call(fn, path)})
\* the number of Storage.delete calls the last operation made on a path
DeleteCalls(path) == CallsOf(calls, "delete", path)

\* C21: one save() that renames several entities whose old paths coincide deletes each
\* old path at most once
C21_OldPathDeletedOnce ==
    ormOp.op = "save" => \A p \in Paths : DeleteCalls(p) <= 1

\* a spider whose document was loaded and whose id was then given another value
Renamed(e) ==
    /\ data[e]["committed"]["id"].k = "str"
    /\ data[e]["working"]["id"].k = "str"
    /\ data[e]["working"]["id"] # data[e]["committed"]["id"]

C22_Step ==
    (/\ ormOp'.op = "save" /\ ormOp'.err = "ok"
     /\ ModelOf(ormOp'.ent) = "Spider"
     /\ Renamed(ormOp'.ent))
    => \A old \in {data[ormOp'.ent]["committed"]["id"].s},
          new \in {data[ormOp'.ent]["working"]["id"].s} :
           /\ CallsOf(calls', "save", SpiderPath(new)) = 1
           /\ CallsOf(calls', "delete", SpiderPath(old)) = 1
           /\ files'[SpiderPath(old)] = Missing
           /\ files'[SpiderPath(new)]
                  = SpiderDoc(new, ItemsOf(data[ormOp'.ent], "samples", <<"committed">>))
           /\ \A x \in Members(Coll(ItemsOf(data[ormOp'.ent], "samples",
                                              <<"committed">>))) :
                  /\ CallsOf(calls', "save", SamplePath(new, x)) = 1
                  /\ CallsOf(calls', "delete", SamplePath(old, x)) = 1
                  /\ files'[SamplePath(old, x)] = Missing
                  /\ files'[SamplePath(new, x)] = SampleDoc(x, "x", new)

\* C22: save() of a committed spider whose id, the field its path template names, was
\* changed calls Storage.save exactly once on the new path and Storage.delete exactly
\* once on the old path, and each sample, whose path names the spider's id through the
\* relationship, is saved once at its new path and its old document deleted
C22_RenameMovesDocuments == [][C22_Step]_vars

\* a spider with two samples was renamed and saved: three documents were written at
\* the new paths and the three old ones deleted
C22_Witness ==
    /\ ormOp.op = "save" /\ ormOp.err = "ok" /\ ormOp.ent = "sp1"
    /\ data["sp1"]["committed"]["id"] = Str("sp2")
    /\ CallsOf(calls, "save", SpiderPath("sp2")) = 1
    /\ CallsOf(calls, "delete", SpiderPath("sp1")) = 1
    /\ CallsOf(calls, "save", SamplePath("sp2", "x2")) = 1
    /\ files[SamplePath("sp1", "x1")] = Missing
    /\ files[SamplePath("sp2", "x1")] = SampleDoc("x1", "x", "sp2")

(***************************************************************************)
(* C31: owner edges (specification SpecWalk)                               *)
(***************************************************************************)
\* C31: the walk from an owned entity up to its top-most owner during commit finishes
\* after finitely many steps, for every entity of every declared model
C31_OwnerWalkTerminates == (ormOp.op = "walk") ~> (ormOp.op = "walked")

(***************************************************************************)
(* C32: deletes of save (specification SpecMove)                           *)
(***************************************************************************)
\* the model resolves to one path under (committed, staged) and to another under
\* (staged, committed)
Moved(d, c) ==
    storage_path(ModelOf(c), d, c, TRUE, <<"committed", "staged">>)
        # storage_path(ModelOf(c), d, c, TRUE, <<"staged", "committed">>)

C32_Step ==
    ormOp'.op = "save"
    => \A d1 \in {StagedBy(ormOp'.ent, ormOp'.only)} :
           \A i \in 1..Len(calls') :
               calls'[i].fn = "delete"
               => \E c \in Touched(d1, ormOp'.ent) :
                      /\ Moved(d1, c)
                      /\ calls'[i].path
                             = storage_path(ModelOf(c), d1, c, TRUE,
                                            <<"committed", "staged">>)

\* C32: every Storage.delete call of a save() is on the old path of an entity of the
\* save whose path under (committed, staged) differs from its path under (staged,
\* committed); the save of a newly constructed entity and the save of a renamed
\* entity of a fixed-path document delete nothing for that entity
C32_DeleteOnlyMoved == [][C32_Step]_vars

\* a renamed parent was saved: parents.json, whose path names no field, was written and
\* not deleted, and the only delete was on the old path of the children, which moved
C32_Witness ==
    /\ ormOp.op = "save" /\ ormOp.err = "ok" /\ ormOp.ent = "p1"
    /\ data["p1"]["committed"]["id"] = Str("p2")
    /\ CallsOf(calls, "save", "parents.json") = 1
    /\ CallsOf(calls, "delete", "parents.json") = 0
    /\ CallsOf(calls, "delete", ChildrenPath("p1")) >= 1
    /\ \A i \in 1..Len(calls) :
           calls[i].fn = "delete" => calls[i].path = ChildrenPath("p1")

(***************************************************************************)
(* C33..C35: outcomes of _runWithConnection (specification SpecRunner)     *)
(***************************************************************************)
\* C33: a call that ended by raising made no successful commit, and a commit that
\* failed is followed by nothing (the error is raised), or by a rollback call on the
\* same connection, and a re-run of the operation comes only after a successful
\* reconnect and a newly obtained connection
C33_CommitOrError ==
    /\ (rpc = "done" /\ outcome.kind = "raised")
           => \A i \in 1..Len(log) : log[i].ev # "commit_ok"
    /\ \A i \in 1..Len(log) :
           log[i].ev = "commit_ok" => (i = Len(log) /\ outcome.kind = "returned")
    /\ \A i \in 1..Len(log) :
           (log[i].ev = "commit_err" /\ i < Len(log)) =>
               /\ IsRollback(log[i + 1])
               /\ log[i + 1].conn = log[i].conn
               /\ \A j \in (i + 1)..Len(log) :
                      IsFunc(log[j]) =>
                          /\ j >= i + 4
                          /\ log[i + 2].ev = "reconnect_ok"
                          /\ log[i + 3].ev = "factory"

\* C33 witness: the commit of the first attempt failed with a transient error, the
\* operation was run again after rollback and reconnect, and the call ended by raising
C33_Witness ==
    /\ rpc = "done"
    /\ outcome.kind = "raised"
    /\ Len(log) >= 7
    /\ log[3].ev = "commit_err"
    /\ IsRollback(log[4])
    /\ log[5].ev = "reconnect_ok"
    /\ IsFunc(log[7])

\* C34: every top-level call ends, by returning or by raising, and has invoked the
\* operation at most RETRIES + 1 times when it does, also when every attempt fails with
\* a transient error and every rollback fails
C34_RunTerminates ==
    /\ <>(rpc = "done" /\ outcome.kind \in {"returned", "raised"})
    /\ [](Invocations <= RETRIES + 1)

\* C34 witness: every attempt failed with a transient error, every rollback failed, and
\* the call ended by raising after the last attempt
C34_Witness ==
    /\ rpc = "done"
    /\ outcome.kind = "raised"
    /\ Invocations = RETRIES + 1
    /\ \A i \in 1..Len(log) : log[i].ev \notin {"func_ok", "rollback_ok"}
    /\ Cardinality({i \in 1..Len(log) : log[i].ev = "rollback_err"}) = RETRIES

\* the number of invocations of the operation among the first n events
InvocationsBy(n) == Cardinality({i \in 1..n : IsFunc(log[i])})

\* the writes held by the open transaction of the database connection after the first
\* n events, each named by the invocation that made it: an invocation writes whether
\* it returns or raises, a rollback that succeeds and a reconnect, which closes the
\* connection, discard them, and a commit makes them permanent. With autocommit off
\* (init_connection) nothing is permanent before a commit.
RECURSIVE OpenWrites(_)
OpenWrites(n) ==
    IF n = 0 THEN {}
    ELSE IF IsFunc(log[n]) THEN OpenWrites(n - 1) \cup {InvocationsBy(n)}
    ELSE IF log[n].ev \in {"rollback_ok", "reconnect_ok", "reconnect_err", "commit_ok"}
    THEN {}
    ELSE OpenWrites(n - 1)

\* the writes made permanent by the commits of the call
CommittedWrites ==
    UNION {OpenWrites(n - 1) : n \in {i \in 1..Len(log) : log[i].ev = "commit_ok"}}

\* C35: a call that returned has committed the writes of its last invocation of the
\* operation and of no other, however many attempts failed before; a call that has not
\* returned has committed nothing
C35_OneExecutionCommitted ==
    /\ outcome.kind = "returned" => CommittedWrites = {Invocations}
    /\ outcome.kind # "returned" => CommittedWrites = {}

\* C35 witness: the third invocation was committed after one attempt whose rollback
\* succeeded and one whose rollback failed
C35_Witness ==
    /\ rpc = "done"
    /\ outcome.kind = "returned"
    /\ Invocations = 3
    /\ CommittedWrites = {3}
    /\ \E i, j \in 1..Len(log) : log[i].ev = "rollback_ok" /\ log[j].ev = "rollback_err"

\* C36: set_if_equals on a name whose row holds a symbolic value compares old_ref with
\* that raw stored value (marker and target name, the chain is not followed); when the
\* comparison passes it writes new_ref to the row of the name the symbolic value points
\* to, and the row of the symbolic name itself keeps its value.
C36_Step ==
    (lastOp'.op = "set_if_equals" /\ refs[lastOp'.repo][lastOp'.name].sym) =>
        LET repo == lastOp'.repo
            name == lastOp'.name
            raw == refs[repo][name]
        IN  /\ lastOp'.ret = (lastOp'.old = RefNone \/ lastOp'.old = raw)
            /\ lastOp'.ret =>
                   /\ refs'[repo][raw.v] = lastOp'.new
                   /\ refs'[repo][name] = raw
            /\ ~lastOp'.ret => refs' = refs

C36_SymbolicCompareRawWriteTarget == [][C36_Step]_vars

\* C36 witness: HEAD points to a branch, set_if_equals("HEAD", <the symbolic value>, sha)
\* returned True, the branch holds the sha and HEAD still holds the symbolic value
C36_Witness ==
    /\ lastOp.op = "set_if_equals"
    /\ lastOp.name = "HEAD"
    /\ lastOp.old \in SymVals
    /\ lastOp.ret = TRUE
    /\ refs[lastOp.repo]["HEAD"] = lastOp.old
    /\ refs[lastOp.repo][lastOp.old.v] = lastOp.new

\* the namespaces that hold at least one row of the objs table
WithObjects(tbl) == {name \in Repos : \E o \in Objects : CopiesIn(Row(o, name), tbl) > 0}

\* C37: repo_exists(name) answers whether the objs table holds a row of namespace name;
\* init_bare, open and a write of a ref leave that answer as it was; list_repos returns
\* the namespaces with at least one object; after delete_repo(name) repo_exists(name)
\* is false and the namespace has no ref.
C37_Step ==
    /\ lastOp'.op = "repo_exists" => lastOp'.ret = (lastOp'.repo \in WithObjects(objs))
    /\ lastOp'.op = "list_repos" => lastOp'.repos = WithObjects(objs)
    /\ lastOp'.op \in {"init_bare", "open", "add_if_new"} =>
           \A name \in Repos :
               repo_exists(objs', refs', name) = (name \in WithObjects(objs))
    /\ lastOp'.op = "delete_repo" =>
           /\ ~repo_exists(objs', refs', lastOp'.repo)
           /\ \A n \in RefNames : refs'[lastOp'.repo][n] = RefNone

C37_RepoExistsIffObjects == [][C37_Step]_vars

\* C37 witness: repo_exists answered False for a namespace that holds a ref and no object
C37_Witness ==
    /\ lastOp.op = "repo_exists"
    /\ lastOp.ret = FALSE
    /\ refs[lastOp.repo]["refs/heads/master"] \in ShaVals
    /\ lastOp.repo \notin WithObjects(objs)

(***************************************************************************)
(* Claims on a save whose storage raises (specification SpecFail)          *)
(***************************************************************************)
\* the step is a save in which a Storage.save or Storage.delete call raised
SaveFailed == ormOp'.op = "save" /\ ormOp'.err = "IOError"

\* the documents an entity with staged file fields is written to
StagedPath(d, e) ==
    storage_path(ModelOf(e), d, e, TRUE, <<"staged", "committed">>)

\* C38: when a Storage.save or Storage.delete call of save() raises, nothing has been
\* folded: the staged generation of every entity is exactly what the save had staged,
\* and a committed generation differs from what it was before the call only by what a
\* lazy load of that save has read from storage. The save() of the same entity that
\* next returns normally writes the document of every entity the failed save went
\* over that holds staged file fields, and folds their staged values into committed.
C38_Step ==
    /\ SaveFailed =>
           \A d \in {StagedBy(ormOp'.ent, ormOp'.only)} :
               \A k \in StoreKeys :
                   /\ data'[k]["staged"] = d[k]["staged"]
                   /\ loaded' = loaded => data'[k]["committed"] = data[k]["committed"]
    /\ (ormOp.op = "save" /\ ormOp.err = "IOError" /\ SaveReturned
            /\ ormOp'.ent = ormOp.ent) =>
           \A k \in Touched(data, ormOp.ent) :
               /\ \A f \in FieldNames :
                      data[k]["staged"][f] # Absent =>
                          /\ data'[k]["committed"][f] = data[k]["staged"][f]
                          /\ data'[k]["staged"][f] = Absent
               /\ _file_fields(ModelOf(k)) \cap KeysIn(data[k], "staged") # {} =>
                      CallsOf(calls', "save", StagedPath(data, k)) >= 1

C38_FailedSaveFoldsNothing == [][C38_Step]_vars

\* C38 witness: the save of the renamed spider sp1 has stopped with IOError after a
\* write had succeeded, the new id is still staged and committed holds the old id
C38_Witness ==
    /\ ormOp.op = "save" /\ ormOp.ent = "sp1" /\ ormOp.err = "IOError"
    /\ \E i \in 1..Len(calls) : calls[i].fn = "save"
    /\ data["sp1"]["staged"]["id"] = Str("sp2")
    /\ data["sp1"]["committed"]["id"] = Str("sp1")

(***************************************************************************)
(* Claims on loads that find no sound document (specification SpecBroken)  *)
(***************************************************************************)
\* the document is missing, cannot be read or does not pass the file schema
Broken(doc) ==
    \/ doc \in {Missing, Unreadable}
    \/ file_schema_load(NoData, doc).err # "ok"

\* the entities items.json holds
AtItems == Keys.Schema \cup Keys.Field

\* C39: load records the path in the loaded set with the attempt, whether or not the
\* document is there and can be read and parsed; once the path of a missing or
\* failing document is recorded, no later field access asks the storage for that path
\* again, and the committed generations of the entities of that document stay as the
\* attempt left them (the fields it did not load stay absent).
C39_Step ==
    \A p \in Paths :
        /\ CallsOf(calls', "exists", p) > 0 => (p \in loaded' /\ p \notin loaded)
        /\ (p \in loaded /\ Broken(files[p])) =>
               /\ CallsOf(calls', "exists", p) = 0
               /\ CallsOf(calls', "open", p) = 0
               /\ p = "items.json" =>
                      \A k \in AtItems : data'[k]["committed"] = data[k]["committed"]

C39_FailedLoadNotRetried == [][C39_Step]_vars

\* C39 witness: the first access ended with ValidationError after opening items.json
\* once; s1.name is read again, no storage call is made and the name is absent
C39_Witness ==
    /\ "items.json" \in loaded
    /\ file_schema_load(NoData, files["items.json"]).err = "ValidationError"
    /\ opens["items.json"] = 1
    /\ ormOp.op = "get_data" /\ ormOp.ent = "s1" /\ ormOp.err = "ok"
    /\ ormOp.ret = Absent
    /\ calls = <<>>
    /\ data["s1"]["committed"]["name"] = Absent

(***************************************************************************)
(* Claims on rollback (specification SpecFold)                             *)
(***************************************************************************)
\* the state a rollback leaves, as the operation that follows it finds it
AfterStep == World(data', loaded', files', <<>>)

\* the fields of e that are set in working and not staged
OnlyInWorking(st) == KeysIn(st, "working") \ KeysIn(st, "staged")

\* C40: rollback() empties the working generation of the entity and changes neither
\* its staged nor its committed generation, nor any other entity; every field then
\* reads as its staged value, else its committed value, else is absent; a save() that
\* follows at once neither stages nor folds a field that was set in working only,
\* and it makes no Storage.save or Storage.delete call when nothing is staged on the
\* entity or on the entities it references.
C40_Step ==
    ormOp'.op = "rollback" =>
        LET e == ormOp'.ent
        IN  /\ KeysIn(data'[e], "working") = {}
            /\ data'[e]["staged"] = data[e]["staged"]
            /\ data'[e]["committed"] = data[e]["committed"]
            /\ \A k \in StoreKeys \ {e} : data'[k] = data[k]
            /\ \A f \in FieldNames :
                   ModelSnapshots_get(data'[e], f, default_snapshots)
                       = ModelSnapshots_get(data[e], f, <<"staged", "committed">>)
            /\ \A w1 \in {resolve_attributes(AfterStep, e, _file_fields(ModelOf(e)),
                                              <<"committed">>)} :
                   \A r \in {save(AfterStep, e, AllFields)} :
                       /\ \A f \in OnlyInWorking(data[e]) :
                              /\ r.w.data[e]["working"][f] = Absent
                              /\ r.w.data[e]["staged"][f] = Absent
                              /\ r.w.data[e]["committed"][f] = w1.data[e]["committed"][f]
                       /\ NothingStaged(w1.data, e) => Writes(r.w.calls) = {}

C40_RollbackDropsWorking == [][C40_Step]_vars

\* C40 witness: f1.name was loaded as 'x' and set to 'y'; f1.rollback() has emptied
\* working, the name reads 'x' again and nothing is staged
C40_Witness ==
    /\ ormOp.op = "rollback" /\ ormOp.ent = "f1"
    /\ KeysIn(data["f1"], "working") = {}
    /\ KeysIn(data["f1"], "staged") = {}
    /\ data["f1"]["committed"]["name"] = Str("x")
    /\ ModelSnapshots_get(data["f1"], "name", default_snapshots) = Str("x")
    /\ files["items.json"] = Fixture["items.json"]

====
